---- MODULE Spec2Model ----
(***************************************************************************)
(* A model of cargo-line-test: the RangeSet container (src/range_set.rs),  *)
(* the rebuild of line-test.db under its Restorer (src/db/build), the      *)
(* selection of tests for requested lines and the refresh (src/main.rs).   *)
(*                                                                         *)
(* Each part has its own specification.  A specification moves the         *)
(* variables of its part and leaves the others at their idle values.       *)
(***************************************************************************)
EXTENDS Integers, Sequences, FiniteSets, TLC

\* RangeSet (part 1)
VARIABLES
    range_set,   \* RangeSet.0: the BTreeSet<DisjointRange<u32>>
    expected,    \* ghost: the integers a mathematical set would hold now
    removes,     \* ghost: has remove() been called on this set?
    last         \* ghost: the last call, its argument, what it returned and,
                 \* for remove, the set it was called on

rsVars == <<range_set, expected, removes, last>>

\* A caller that builds a RangeSet from a list of ranges (part 1)
VARIABLES
    pending,     \* the ranges the caller has still to insert, in order
    inserted     \* ghost: the ranges inserted so far, in order

seqVars == <<pending, inserted>>

\* main() (parts 2 to 4)
VARIABLES
    opts,        \* opts::get(): build, refresh, missing_only, deny_warnings,
                 \* no_run, zero_coverage
    pc,          \* where main() is
    result       \* what main() returns: "running", "ok" or "err"

mainVars == <<opts, pc, result>>

\* db::build() (part 2)
VARIABLES
    db,          \* the directory line-test.db
    backup,      \* the store renamed into the temporary sibling directory
    tempdir,     \* does the temporary sibling directory exist?
    CTRLC,       \* static CTRLC: AtomicBool
    handler,     \* has ctrlc::set_handler installed the handler?
    restorer,    \* the local `restorer`: "none", "armed" or "disabled"
    package_crate_test_map,  \* (package, crate) -> the tests to run, in order
    pos,         \* where run_tests is: package, crate and test index
    proc,        \* the external test process that is alive, <<>> for none
    pre,         \* ghost: line-test.db as it was when build() started
    sig_armed,   \* ghost: CTRLC was set while the store was backed up and
                 \* the restorer not yet disabled
    all_tests,   \* ghost: the tests the listing processes reported
    started,     \* ghost: the tests whose process was started, in order
    exit_status, \* ghost: how the last test process exited: "none" before
                 \* it has, "success" or "failure"
    warned       \* ghost: the tests whose failure warn() printed a warning for

buildVars == <<db, backup, tempdir, CTRLC, handler, restorer,
               package_crate_test_map, pos, proc, pre, sig_armed,
               all_tests, started, exit_status, warned>>

\* The store as db::read() loads it, and the tests chosen (parts 3 and 4)
VARIABLES
    coverage_map,     \* (package, crate, test) -> PathCoverageMap
    path_digest_map,  \* Db.path_digest_map: path -> digest
    test_map          \* the PackageCrateMap<Vec<Test>> handed to the runner

storeVars == <<coverage_map, path_digest_map, test_map>>

\* run_tests() of main.rs: selection by requested lines (part 3)
VARIABLES
    path_line_map,    \* the line-of-interest map
    uncovered,        \* the map handed to warn_about_uncovered_lines
    warnings,         \* the warnings emitted
    on_disk           \* ghost: the requested paths try_exists found on disk

selVars == <<path_line_map, uncovered, warnings, on_disk>>

\* refresh() (part 4)
VARIABLES
    files             \* the source files on disk: path -> contents

refVars == <<files>>

\* The artifacts of one crate target on disk (part 5)
VARIABLES
    listed,           \* what package_crate_tests returned: the tests, in order
    packages_dir,     \* line-test.db/packages/<p>/<c>: file name -> the paths
                      \* of the artifact's source-file records
    digests_json,     \* line-test.db/digests.json: path -> hex digest
    captured,         \* ghost: the tests whose coverage process wrote an artifact
    cursor,           \* the index of the next test of the list
    loaded            \* the Db returned by db::read()

fsVars == <<listed, packages_dir, digests_json, captured, cursor, loaded>>

\* read_lcov() on one artifact (part 6)
VARIABLES
    records,            \* ghost: the records the lcov Reader has yielded
    source_file,        \* the local `source_file`: <<>> for None, <<path>>
                        \* for Some(path)
    line_coverage,      \* the local `coverage`: the lines with a hit so far
    path_coverage_map,  \* the local `path_coverage_map`
    lcov_result         \* what read_lcov returns: "reading", "ok" or "err"

lcovVars == <<records, source_file, line_coverage, path_coverage_map,
              lcov_result>>

\* The sources of line specifications of run_tests() of main.rs (part 7)
VARIABLES
    opt_lines,        \* opts::get().lines: the --line arguments, in order
    opt_diff,         \* opts::get().diff
    stdin,            \* standard input: the hunks of a diff, or the lines of
                      \* line specifications
    line_dash_used    \* the local `line_dash_used`

argVars == <<opt_lines, opt_diff, stdin, line_dash_used>>

\* package_crates() on one package of the workspace (part 8)
VARIABLES
    metadata,         \* package.targets as cargo metadata reports them
    package_crates,   \* the keys of the package's entry of `package_crates`
    keyed             \* ghost: the key of each target looked at so far, <<>>
                      \* for None

metaVars == <<metadata, package_crates, keyed>>

\* cargo line-test --refresh run again on the same store (part 9)
VARIABLES
    history,          \* ghost: of each refresh that has returned, what it
                      \* returned, the tests it executed and the paths
                      \* modified between its return and the next refresh
    modified          \* ghost: the paths modified since the last refresh
                      \* returned

againVars == <<history, modified>>

vars == <<rsVars, seqVars, mainVars, buildVars, storeVars, selVars, refVars, fsVars,
          lcovVars,
          argVars, metaVars, againVars>>

\* What the actions of each part leave alone.
notRs == <<mainVars, buildVars, storeVars, selVars, refVars, fsVars, lcovVars,
    seqVars, argVars, metaVars, againVars>>
notBuild == <<opts, rsVars, storeVars, selVars, refVars, fsVars, lcovVars,
    seqVars, argVars, metaVars, againVars>>
notSel == <<opts, rsVars, buildVars, refVars, fsVars, lcovVars,
    seqVars, argVars, metaVars, againVars>>
notRefresh == <<opts, rsVars, buildVars, selVars, fsVars, lcovVars,
    seqVars, argVars, metaVars, againVars>>
notStore == <<opts, rsVars, buildVars, storeVars, selVars, lcovVars,
    seqVars, argVars, metaVars, againVars>>
notLcov == <<mainVars, rsVars, buildVars, storeVars, selVars, refVars, fsVars,
    seqVars, argVars, metaVars, againVars>>
notArgs == <<opts, rsVars, seqVars, buildVars, storeVars, refVars, fsVars,
    lcovVars, metaVars, againVars>>
notMeta == <<mainVars, rsVars, seqVars, buildVars, storeVars, selVars, refVars,
    fsVars, lcovVars, argVars, againVars>>
notAgain == <<opts, rsVars, buildVars, selVars, fsVars, lcovVars,
    seqVars, argVars, metaVars>>
(***************************************************************************)
(* Part 1: RangeSet<u32> (src/range_set.rs)                                *)
(*                                                                         *)
(* A Range<u32> start..end is the pair <<start, end>>.  The model keeps    *)
(* the numbers far below 2^32, so value + 1 never overflows here.          *)
(***************************************************************************)

\* Range bounds are drawn from 0..MaxVal.
MaxVal == 3


Values == 0 .. MaxVal

\* Every Range<u32> a caller can write, 5..2 and 3..3 included.
AnyRange == Values \X Values

\* The ranges with start < end.
ProperRange == {r \in AnyRange : r[1] < r[2]}

\* The integers of a half-open range.
Ints(r) == r[1] .. (r[2] - 1)

\* The integers covered by a set of ranges.
Covered(S) == UNION {Ints(r) : r \in S}

\* Ord for DisjointRange compares the ends only, so a BTreeSet holds at most
\* one range per end, and insert keeps the member it already has.
BTreeInsert(S, r) ==
    IF \E q \in S : q[2] = r[2] THEN S ELSE S \cup {r}

\* BTreeSet::remove drops the member that compares equal.
BTreeRemove(S, r) == {q \in S : q[2] # r[2]}

\* BTreeSet::range(lo..=hi) with lo = hi: the members that compare equal.
BTreeRangeEq(S, r) == {q \in S : q[2] = r[2]}

\* The members of a BTreeSet in iteration order (ascending end).
RECURSIVE Iter(_)
Iter(S) ==
    IF S = {} THEN <<>>
    ELSE LET m == CHOOSE q \in S : \A p \in S : q[2] <= p[2]
         IN  <<m>> \o Iter(S \ {m})

Min2(a, b) == IF a <= b THEN a ELSE b
Max2(a, b) == IF a >= b THEN a ELSE b

unionable(x, y) ==
    IF x[1] <= y[1] THEN x[2] >= y[1] ELSE y[2] >= x[1]

union(x, y) == <<Min2(x[1], y[1]), Max2(x[2], y[2])>>

\* The loop of insert_range over the stored ranges.
RECURSIVE InsertLoop(_, _, _)
InsertLoop(todo, value, new_range_set) ==
    IF todo = <<>> THEN BTreeInsert(new_range_set, value)
    ELSE LET range == Head(todo) IN
         IF unionable(value, range)
         THEN InsertLoop(Tail(todo), union(value, range), new_range_set)
         ELSE InsertLoop(Tail(todo), value, BTreeInsert(new_range_set, range))

insert_range(S, value) == InsertLoop(Iter(S), value, {})

is_empty(S) == S = {}

\* The stored range found for value: the set of matches, empty for None.
find_disjoint_range(S, value) ==
    BTreeRangeEq(S, <<value, value + 1>>)

contains(S, value) == find_disjoint_range(S, value) # {}

\* remove: the set afterwards and the value returned.
remove(S, value) ==
    LET found == find_disjoint_range(S, value) IN
    IF found = {} THEN [set |-> S, ret |-> FALSE]
    ELSE LET d  == CHOOSE q \in found : TRUE
             s0 == BTreeRemove(S, d)
             s1 == IF d[1] < value
                   THEN BTreeInsert(s0, <<d[1], value>>) ELSE s0
             s2 == IF value + 1 < d[2]
                   THEN BTreeInsert(s1, <<value + 1, d[2]>>) ELSE s1
         IN  [set |-> s2, ret |-> TRUE]

NoCall == [op |-> "none", arg |-> <<0, 0>>, ret |-> FALSE, before |-> {}]

RsInit ==
    /\ range_set = {}
    /\ expected = {}
    /\ removes = FALSE
    /\ last = NoCall

InsertRange(r) ==
    /\ range_set' = insert_range(range_set, r)
    /\ expected' = expected \cup Ints(r)
    /\ last' = [op |-> "insert_range", arg |-> r, ret |-> TRUE, before |-> {}]
    /\ UNCHANGED removes
    /\ UNCHANGED notRs

Contains(x) ==
    /\ last' = [op |-> "contains", arg |-> <<x, x + 1>>,
                ret |-> contains(range_set, x), before |-> {}]
    /\ UNCHANGED <<range_set, expected, removes>>
    /\ UNCHANGED notRs

Remove(x) ==
    /\ LET r == remove(range_set, x) IN
       /\ range_set' = r.set
       /\ last' = [op |-> "remove", arg |-> <<x, x + 1>>, ret |-> r.ret,
                   before |-> range_set]
    /\ expected' = expected \ {x}
    /\ removes' = TRUE
    /\ UNCHANGED notRs

Points == 0 .. (MaxVal - 1)

\* Callers that pass any Range<u32>.
RsNextAny ==
    \/ \E r \in AnyRange : InsertRange(r)
    \/ \E x \in Points : Contains(x)
    \/ \E x \in Points : Remove(x)

\* Callers that pass ranges with start < end only.
RsNextProper ==
    \/ \E r \in ProperRange : InsertRange(r)
    \/ \E x \in Points : Contains(x)
    \/ \E x \in Points : Remove(x)

(***************************************************************************)
(* A RangeSet built by insert_range calls only, as parse_line_specification *)
(* and read_diff build the line set of a path.                             *)
(***************************************************************************)

\* The caller inserts at most MaxInserts ranges.
MaxInserts == 3

\* The lists of ranges a caller may insert.
RangeLists == UNION {[1 .. n -> AnyRange] : n \in 0 .. MaxInserts}

\* The RangeSet after insert_range was called with each range of the list
\* on a RangeSet::default().
RECURSIVE InsertAll(_, _)
InsertAll(S, list) ==
    IF list = <<>> THEN S
    ELSE InsertAll(insert_range(S, Head(list)), Tail(list))

SeqInit ==
    /\ RsInit
    /\ pending \in RangeLists
    /\ inserted = <<>>

\* line_set.insert_range(lines) for the next range of the list.
InsertNext ==
    /\ pending # <<>>
    /\ range_set' = insert_range(range_set, Head(pending))
    /\ expected' = expected \cup Ints(Head(pending))
    /\ last' = [op |-> "insert_range", arg |-> Head(pending), ret |-> TRUE,
                before |-> {}]
    /\ pending' = Tail(pending)
    /\ inserted' = Append(inserted, Head(pending))
    /\ UNCHANGED removes
    /\ UNCHANGED <<mainVars, buildVars, storeVars, selVars, refVars, fsVars,
                   lcovVars, argVars, metaVars, againVars>>

SeqNext == InsertNext

(***************************************************************************)
(* Part 2: build() of line-test.db under its Restorer                      *)
(* (src/db/build/mod.rs, src/db/build/restorer.rs, src/run.rs)             *)
(*                                                                         *)
(* Packages, crate targets and tests are numbered in the order in which    *)
(* the BTreeMaps and the test Vec are iterated.  A step that returns an    *)
(* error through `?` may fail here; the two calls of Restorer::drop whose  *)
(* errors are swallowed (unwrap_or_default) are taken to succeed, the      *)
(* store directory having no other writer.                                 *)
(***************************************************************************)

\* The workspace cargo metadata reports: package p has CrateCount[p] targets.
CrateCount == <<2, 1>>

\* A test-listing process reports at most MaxTests tests for one target.
MaxTests == 2


Packages == 1 .. Len(CrateCount)
CratesOf(p) == 1 .. CrateCount[p]
PackageCrates == {pk \in Packages \X (1 .. 2) : pk[2] \in CratesOf(pk[1])}
Slots == {s \in Packages \X (1 .. 2) \X (1 .. MaxTests) : s[2] \in CratesOf(s[1])}

\* A directory that does not exist.
Absent == [exists |-> FALSE, readme |-> FALSE, packages |-> FALSE, dirs |-> {},
           old |-> {}, new |-> {}, digests |-> "none"]

\* create_dir(path) and write(path.join("README.txt"), README)
FreshDb == [Absent EXCEPT !.exists = TRUE, !.readme = TRUE]

\* A store left by an earlier build: its artifacts (old) and digests.json.
BuiltDb(artifacts) ==
    [exists |-> TRUE, readme |-> TRUE, packages |-> TRUE,
     dirs |-> {<<s[1], s[2]>> : s \in artifacts},
     old |-> artifacts, new |-> {}, digests |-> "old"]

\* The stores a build may find: none, or one that holds the artifacts of the
\* first test of some targets.
PreStores ==
    {Absent} \cup
    {BuiltDb(a) : a \in (SUBSET {s \in Slots : s[3] = 1}) \ {{}}}

\* The test lists the listing processes may report: tests 1..k of each target.
Listings == [PackageCrates -> {[i \in 1 .. k |-> i] : k \in 0 .. MaxTests}]

\* A check that only sees the artifacts this build wrote.
HasLcov_new(d, s) == s \in d.new

\* Is line-test.db/packages/<p>/<c>/<t>.lcov there?
HasLcov(d, s) == s \in d.old \/ s \in d.new

RECURSIVE FilterSeq(_, _, _)
FilterSeq(d, pk, tests) ==
    IF tests = <<>> THEN <<>>
    ELSE IF HasLcov(d, <<pk[1], pk[2], Head(tests)>>)
         THEN FilterSeq(d, pk, Tail(tests))
         ELSE <<Head(tests)>> \o FilterSeq(d, pk, Tail(tests))

remove_tests_with_lcov(d, map) ==
    [pk \in PackageCrates |-> FilterSeq(d, pk, map[pk])]

\* create_dir_all(line-test.db/packages/<p>/<c>)
create_dir_all(d, p, c) ==
    IF d.exists
    THEN [d EXCEPT !.packages = TRUE, !.dirs = @ \cup {<<p, c>>}]
    ELSE d

\* The coverage process of test s wrote its artifact.
WriteLcov(d, s) ==
    IF <<s[1], s[2]>> \in d.dirs
    THEN [d EXCEPT !.old = @ \ {s}, !.new = @ \cup {s}]
    ELSE d

\* A drop that leaves the partially built directory where it is.
remove_dir_all_kept(d) == d

\* remove_dir_all(&self.canonical_path)
remove_dir_all(d) == Absent

\* rename(from, to): fails when there is nothing to rename or the target is a
\* directory that is not empty.
rename(from, to) ==
    IF from.exists /\ ~to.exists THEN [from |-> Absent, to |-> from]
    ELSE [from |-> from, to |-> to]

\* A drop that restores even when the guard was disabled.
RestorerDrop_always(r, d, b) ==
    IF r = "none" THEN [db |-> d, backup |-> b]
    ELSE LET m == rename(b, remove_dir_all(d))
         IN  [db |-> m.to, backup |-> m.from]

\* Restorer::drop: what becomes of line-test.db and of the backup.
RestorerDrop(r, d, b) ==
    IF r # "armed" THEN [db |-> d, backup |-> b]
    ELSE LET m == rename(b, remove_dir_all(d))
         IN  [db |-> m.to, backup |-> m.from]

BuildInit ==
    /\ opts \in [build : {TRUE}, refresh : {FALSE}, missing_only : BOOLEAN,
                 deny_warnings : BOOLEAN, no_run : BOOLEAN,
                 zero_coverage : {FALSE}]
    /\ pre \in PreStores
    /\ db = pre
    /\ backup = Absent
    /\ tempdir = FALSE
    /\ CTRLC = FALSE
    /\ handler = FALSE
    /\ restorer = "none"
    /\ package_crate_test_map = [pk \in PackageCrates |-> <<>>]
    /\ pos = [p |-> 0, c |-> 0, t |-> 0]
    /\ proc = <<>>
    /\ pc = "start"
    /\ result = "running"
    /\ sig_armed = FALSE
    /\ all_tests = [pk \in PackageCrates |-> <<>>]
    /\ started = <<>>
    /\ exit_status = "none"
    /\ warned = {}

\* run_tests' parameter `coverage`: true from build() and refresh(), false
\* from main.rs's run_tests.
coverage == opts.build \/ opts.refresh

\* A `?` or bail! returns Err: build()'s locals are dropped next; the other
\* callers hand the error to main.
Fail ==
    /\ pc' = IF opts.build THEN "drop" ELSE "done"
    /\ result' = "err"
    /\ proc' = <<>>

\* warn(): an error under --deny-warnings.
WarnFails == opts.deny_warnings

\* A check that finds a directory whether it is there or not.
try_exists_always(d) == TRUE

\* path.try_exists()
try_exists(d) == d.exists

\* build(), lines 25-41: the git check and the existence check.
BuildStart ==
    /\ pc = "start"
    /\ \E git \in {"ignored", "not ignored", "no git"} :
        IF git = "no git" \/ (git = "not ignored" /\ WarnFails) THEN Fail
        ELSE IF try_exists(db)
             THEN /\ pc' = IF opts.missing_only THEN "list" ELSE "save"
                  /\ UNCHANGED <<result, proc>>
             ELSE IF opts.missing_only THEN Fail
                  ELSE /\ pc' = "create"
                       /\ UNCHANGED <<result, proc>>
    /\ UNCHANGED <<db, backup, tempdir, CTRLC, handler, restorer,
                   package_crate_test_map, pos, pre, sig_armed,
                   all_tests, started, exit_status, warned>>
    /\ UNCHANGED notBuild

\* save_existing_db: the handler, then Restorer::new renames the store.
SaveExistingDb ==
    /\ pc = "save"
    /\ \/ /\ handler' = TRUE
          /\ tempdir' = TRUE
          /\ LET m == rename(db, Absent) IN
             /\ backup' = m.to
             /\ db' = m.from
          /\ restorer' = "armed"
          /\ pc' = "create"
          /\ UNCHANGED <<result, proc>>
       \/ /\ handler' \in BOOLEAN
          /\ Fail
          /\ UNCHANGED <<tempdir, backup, db, restorer>>
    /\ UNCHANGED <<CTRLC, package_crate_test_map, pos, pre, sig_armed,
                   all_tests, started, exit_status, warned>>
    /\ UNCHANGED notBuild

\* build(), lines 43-46: create_dir and the README.
CreateDir ==
    /\ pc = "create"
    /\ \/ /\ db' = FreshDb
          /\ pc' = "list"
          /\ UNCHANGED <<result, proc>>
       \/ /\ db' \in {db, [Absent EXCEPT !.exists = TRUE]}
          /\ Fail
    /\ UNCHANGED <<backup, tempdir, CTRLC, handler, restorer,
                   package_crate_test_map, pos, pre, sig_armed,
                   all_tests, started, exit_status, warned>>
    /\ UNCHANGED notBuild

\* package_crate_test_map() and, under --missing-only, remove_tests_with_lcov.
ListTests ==
    /\ pc = "list"
    /\ \/ /\ \E listing \in Listings :
               /\ all_tests' = listing
               /\ package_crate_test_map' =
                      IF opts.missing_only
                      THEN remove_tests_with_lcov(db, listing)
                      ELSE listing
          /\ pc' = "package"
          /\ pos' = [p |-> 1, c |-> 0, t |-> 0]
          /\ UNCHANGED <<result, proc>>
       \/ /\ Fail
          /\ UNCHANGED <<package_crate_test_map, pos, all_tests>>
    /\ UNCHANGED <<db, backup, tempdir, CTRLC, handler, restorer, pre,
                   sig_armed, started, exit_status, warned>>
    /\ UNCHANGED notBuild

\* A runner that never looks at the flag.
CtrlcLoad_never == FALSE

\* CTRLC.load(Ordering::SeqCst) at the head of an iteration.
CtrlcLoad == CTRLC

\* run_tests, lines 41-46 and 132: the head of the loop over the packages.
\* After the last package run_tests returns Ok: build() and refresh() go on
\* to the digests, main.rs's run_tests returns Ok to main.
PollPackage ==
    /\ pc = "package"
    /\ IF pos.p > Len(CrateCount)
       THEN /\ IF coverage
               THEN pc' = "digests" /\ UNCHANGED result
               ELSE pc' = "done" /\ result' = "ok"
            /\ UNCHANGED <<pos, proc>>
       ELSE IF CtrlcLoad THEN Fail /\ UNCHANGED pos
            ELSE /\ pc' = "crate"
                 /\ pos' = [pos EXCEPT !.c = 1]
                 /\ UNCHANGED <<result, proc>>
    /\ UNCHANGED <<db, backup, tempdir, CTRLC, handler, restorer,
                   package_crate_test_map, pre, sig_armed,
                   all_tests, started, exit_status, warned>>
    /\ UNCHANGED notBuild

\* run_tests, lines 48-61: the head of the loop over the crates.
PollCrate ==
    /\ pc = "crate"
    /\ IF pos.c > CrateCount[pos.p]
       THEN /\ pc' = "package"
            /\ pos' = [pos EXCEPT !.p = @ + 1]
            /\ UNCHANGED <<db, result, proc>>
       ELSE IF CtrlcLoad THEN Fail /\ UNCHANGED <<pos, db>>
            ELSE IF package_crate_test_map[<<pos.p, pos.c>>] = <<>>
                 THEN /\ pos' = [pos EXCEPT !.c = @ + 1]
                      /\ UNCHANGED <<pc, db, result, proc>>
                 ELSE /\ db' = IF coverage
                               THEN create_dir_all(db, pos.p, pos.c)
                               ELSE db
                      /\ pc' = "test"
                      /\ pos' = [pos EXCEPT !.t = 1]
                      /\ UNCHANGED <<result, proc>>
    /\ UNCHANGED <<backup, tempdir, CTRLC, handler, restorer,
                   package_crate_test_map, pre, sig_armed,
                   all_tests, started, exit_status, warned>>
    /\ UNCHANGED notBuild

\* A loop that does not move on.
NextTest_again(at) == at

\* A loop that skips the test after this one.
NextTest_skip(at) == [at EXCEPT !.t = @ + 2]

\* The position of the test after this one in the crate's list.
NextTest(at) == [at EXCEPT !.t = @ + 1]

\* run_tests, lines 63-114: the head of the loop over the tests, up to the
\* start of the test's process.
PollTest ==
    /\ pc = "test"
    /\ LET tests == package_crate_test_map[<<pos.p, pos.c>>] IN
       IF pos.t > Len(tests)
       THEN /\ pc' = "crate"
            /\ pos' = [pos EXCEPT !.c = @ + 1]
            /\ UNCHANGED <<result, proc, started, exit_status, warned>>
       ELSE IF CtrlcLoad
            THEN /\ Fail
                 /\ UNCHANGED <<pos, started, exit_status, warned>>
            ELSE \/ /\ Fail
                    /\ UNCHANGED <<pos, started, exit_status, warned>>
                 \/ IF opts.no_run
                    THEN /\ pos' = NextTest(pos)
                         /\ UNCHANGED <<pc, result, proc, started,
                                        exit_status, warned>>
                    ELSE /\ proc' = <<pos.p, pos.c, tests[pos.t]>>
                         /\ started' = Append(started, proc')
                         /\ exit_status' = "none"
                         /\ pc' = "exec"
                         /\ UNCHANGED <<pos, result, warned>>
    /\ UNCHANGED <<db, backup, tempdir, CTRLC, handler, restorer,
                   package_crate_test_map, pre, sig_armed, all_tests>>
    /\ UNCHANGED notBuild

\* run_tests, lines 105-123: the test's process exits; under `coverage` it
\* has written the lcov artifact, or not if it failed early.
TestExit ==
    /\ pc = "exec"
    /\ \/ /\ db' = IF coverage THEN WriteLcov(db, proc) ELSE db
          /\ exit_status' = "success"
          /\ pc' = "test"
          /\ pos' = NextTest(pos)
          /\ proc' = <<>>
          /\ UNCHANGED <<result, warned>>
       \/ /\ db' \in IF coverage THEN {db, WriteLcov(db, proc)} ELSE {db}
          /\ exit_status' = "failure"
          /\ IF WarnFails THEN Fail /\ UNCHANGED <<pos, warned>>
             ELSE /\ warned' = warned \cup {proc}
                  /\ pc' = "test"
                  /\ pos' = NextTest(pos)
                  /\ proc' = <<>>
                  /\ UNCHANGED result
    /\ UNCHANGED <<backup, tempdir, CTRLC, handler, restorer,
                   package_crate_test_map, pre, sig_armed,
                   all_tests, started>>
    /\ UNCHANGED notBuild

\* build_digests: reads line-test.db/packages and rewrites digests.json.
build_digests(d) ==
    IF d.packages THEN [ok |-> TRUE, db |-> [d EXCEPT !.digests = "new"]]
    ELSE [ok |-> FALSE, db |-> d]

\* build(), lines 56-62: build_digests, restorer.disable() and Ok(()).
BuildDigests ==
    /\ pc = "digests"
    /\ LET r == build_digests(db) IN
       \/ /\ r.ok
          /\ db' = r.db
          /\ restorer' = IF restorer = "armed" THEN "disabled" ELSE restorer
          /\ pc' = "drop"
          /\ result' = "ok"
          /\ UNCHANGED proc
       \/ /\ Fail
          /\ UNCHANGED <<db, restorer>>
    /\ UNCHANGED <<backup, tempdir, CTRLC, handler,
                   package_crate_test_map, pos, pre, sig_armed,
                   all_tests, started, exit_status, warned>>
    /\ UNCHANGED notBuild

\* build() returns: Restorer::drop, then TempDir::drop removes the temporary
\* directory with whatever is still in it.
DropLocals ==
    /\ pc = "drop"
    /\ LET r == RestorerDrop(restorer, db, backup) IN
       /\ db' = r.db
       /\ backup' = Absent
    /\ tempdir' = FALSE
    /\ pc' = "done"
    /\ UNCHANGED <<CTRLC, handler, restorer, package_crate_test_map,
                   pos, proc, result, pre, sig_armed,
                   all_tests, started, exit_status, warned>>
    /\ UNCHANGED notBuild

\* SIGINT arrives and the handler stores true into CTRLC.
Signal ==
    /\ handler
    /\ ~CTRLC
    /\ pc # "done"
    /\ CTRLC' = TRUE
    /\ sig_armed' = (restorer = "armed")
    /\ UNCHANGED <<db, backup, tempdir, handler, restorer,
                   package_crate_test_map, pos, proc, pc, result, pre,
                   all_tests, started, exit_status, warned>>
    /\ UNCHANGED notBuild

BuildNext ==
    \/ BuildStart
    \/ SaveExistingDb
    \/ CreateDir
    \/ ListTests
    \/ PollPackage
    \/ PollCrate
    \/ PollTest
    \/ TestExit
    \/ BuildDigests
    \/ DropLocals
    \/ Signal

(***************************************************************************)
(* run::run_tests under each of its three callers, from the call to the    *)
(* return: build() and refresh() pass coverage = true, main.rs's run_tests *)
(* passes the selected tests and coverage = false.                         *)
(***************************************************************************)

\* The test vectors a caller may pass for one target: the listing order is
\* kept by every filter and by the names db::read() sorts.
TestLists ==
    {s \in UNION {[1 .. k -> 1 .. MaxTests] : k \in 0 .. MaxTests} :
        \A i, j \in DOMAIN s : i < j => s[i] < s[j]}

\* The artifacts of the tests of a map.
ArtifactsOf(map) ==
    {s \in Slots : \E i \in DOMAIN map[<<s[1], s[2]>>] :
                       map[<<s[1], s[2]>>][i] = s[3]}

\* The call of run::run_tests: build(), line 54, on a fresh store;
\* refresh(), line 418, and main.rs's run_tests, line 193, on a built one.
RunInit ==
    /\ opts \in {o \in [build : BOOLEAN, refresh : BOOLEAN,
                         missing_only : {FALSE}, deny_warnings : BOOLEAN,
                         no_run : BOOLEAN, zero_coverage : {FALSE}] :
                    ~(o.build /\ o.refresh)}
    /\ package_crate_test_map \in
           IF opts.build THEN Listings ELSE [PackageCrates -> TestLists]
    /\ all_tests = IF opts.build THEN package_crate_test_map
                   ELSE [pk \in PackageCrates |-> <<>>]
    /\ pre = IF opts.build THEN Absent
             ELSE BuiltDb(ArtifactsOf(package_crate_test_map))
    /\ db = IF opts.build THEN FreshDb ELSE pre
    /\ backup = Absent
    /\ tempdir = FALSE
    /\ CTRLC = FALSE
    /\ handler = FALSE
    /\ restorer = "none"
    /\ pos = [p |-> 1, c |-> 0, t |-> 0]
    /\ proc = <<>>
    /\ pc = "package"
    /\ result = "running"
    /\ sig_armed = FALSE
    /\ started = <<>>
    /\ exit_status = "none"
    /\ warned = {}

RunNext ==
    \/ PollPackage
    \/ PollCrate
    \/ PollTest
    \/ TestExit

(***************************************************************************)
(* Part 3: selection of tests for requested lines                          *)
(* (run_tests, validate_paths, tests_for_path_lines, zero_coverage_tests   *)
(* of src/main.rs)                                                         *)
(*                                                                         *)
(* Paths and tests are numbered in BTreeMap order.  A PathCoverageMap is a *)
(* function from the paths of the artifact to their HashSet<u32> of lines; *)
(* the order in which a HashSet is iterated is chosen anew for every set.  *)
(***************************************************************************)

\* The source file src/a.rs (path 1) has MaxLine lines.
MaxLine == 3

\* The lines of the two source files: path 2 has one line.
LinesOf(path) == IF path = 1 THEN 1 .. MaxLine ELSE {1}

PathIds == {1, 2}

\* The tests in the store, as (package, crate, test): two tests of one
\* crate, of two crates of a package, or of two packages.
Layouts == {{<<1, 1, 1>>, <<1, 1, 2>>},
            {<<1, 1, 1>>, <<1, 2, 1>>},
            {<<1, 1, 1>>, <<2, 1, 1>>}}

\* The coverage records read_lcov can return.
PathCoverageMaps ==
    UNION {{f \in [D -> SUBSET (1 .. MaxLine)] :
               \A path \in D : f[path] \subseteq LinesOf(path)}
           : D \in SUBSET PathIds}

CoverageMaps == UNION {[K -> PathCoverageMaps] : K \in Layouts}

\* The elements of a set of numbers in ascending order.
RECURSIVE Ascending(_)
Ascending(S) ==
    IF S = {} THEN <<>>
    ELSE LET m == CHOOSE x \in S : \A y \in S : x <= y
         IN  <<m>> \o Ascending(S \ {m})

\* The RangeSet that holds the lines S, as insert_range builds it.
RECURSIVE InsertLines(_, _)
InsertLines(lines, S) ==
    IF lines = <<>> THEN S
    ELSE InsertLines(Tail(lines),
                     insert_range(S, <<Head(lines), Head(lines) + 1>>))

RangeSetOf(S) == InsertLines(Ascending(S), {})

\* The line-of-interest maps: some lines of some of the paths.
PathLineMaps ==
    UNION {{f \in [D -> {RangeSetOf(S) : S \in SUBSET (1 .. MaxLine) \ {{}}}] :
               \A path \in D : Covered(f[path]) \subseteq LinesOf(path)}
           : D \in SUBSET PathIds}

\* The orders in which a HashSet may be iterated.
RECURSIVE Perms(_)
Perms(S) ==
    IF S = {} THEN {<<>>}
    ELSE UNION {{<<x>> \o q : q \in Perms(S \ {x})} : x \in S}

\* One iteration order for every covered-line set of one record.
RECURSIVE RecordOrders(_, _)
RecordOrders(rec, paths) ==
    IF paths = {} THEN {<<>>}
    ELSE LET path == CHOOSE x \in paths : TRUE IN
         {f @@ (path :> o) : f \in RecordOrders(rec, paths \ {path}),
                             o \in Perms(rec[path])}

\* One iteration order for every covered-line set of the store.
RECURSIVE StoreOrders(_, _)
StoreOrders(cov, tests) ==
    IF tests = {} THEN {<<>>}
    ELSE LET t == CHOOSE x \in tests : TRUE IN
         {f @@ (t :> o) : f \in StoreOrders(cov, tests \ {t}),
                          o \in RecordOrders(cov[t], DOMAIN cov[t])}

HashOrders(cov) == StoreOrders(cov, DOMAIN cov)

PackagesIn(cov) == {t[1] : t \in DOMAIN cov}
CratesIn(cov, p) == {t[2] : t \in {x \in DOMAIN cov : x[1] = p}}
TestsIn(cov, p, c) == {t[3] : t \in {x \in DOMAIN cov : x[1] = p /\ x[2] = c}}

\* The (package, crate) pairs of the store in iteration order.
RECURSIVE CrateSeq(_)
CrateSeq(pairs) ==
    IF pairs = {} THEN <<>>
    ELSE LET m == CHOOSE x \in pairs : \A y \in pairs :
                      x[1] < y[1] \/ (x[1] = y[1] /\ x[2] <= y[2])
         IN  <<m>> \o CrateSeq(pairs \ {m})

\* tests_for_path_lines, lines 349-355: the loop over the lines of one set.
RECURSIVE LineLoop(_, _, _, _)
LineLoop(lines, test, line_set, st) ==
    IF lines = <<>> THEN st
    ELSE LET line == Head(lines) IN
         IF contains(line_set, line) /\ ~st.added
         THEN LineLoop(Tail(lines), test, line_set,
                       [unc |-> remove(st.unc, line).set,
                        tests |-> Append(st.tests, test),
                        added |-> TRUE])
         ELSE LineLoop(Tail(lines), test, line_set, st)

\* lines 344-356: the loop over the paths of one test's record.
RECURSIVE PathLoop(_, _, _, _, _)
PathLoop(paths, test, ord, plm, st) ==
    IF paths = <<>> THEN st
    ELSE LET path == Head(paths) IN
         IF path \notin DOMAIN plm
         THEN PathLoop(Tail(paths), test, ord, plm, st)
         ELSE LET r == LineLoop(ord[path], test, plm[path],
                                [unc |-> st.uncovered[path],
                                 tests |-> st.tests, added |-> st.added])
              IN  PathLoop(Tail(paths), test, ord, plm,
                           [uncovered |-> [st.uncovered EXCEPT ![path] = r.unc],
                            tests |-> r.tests, added |-> r.added])

\* lines 343-357: the loop over the tests of one crate.
RECURSIVE TestLoop(_, _, _, _, _, _)
TestLoop(tests, pk, cov, ord, plm, st) ==
    IF tests = <<>> THEN st
    ELSE LET slot == <<pk[1], pk[2], Head(tests)>> IN
         TestLoop(Tail(tests), pk, cov, ord, plm,
                  PathLoop(Ascending(DOMAIN cov[slot]), Head(tests),
                           ord[slot], plm, st))

\* lines 338-359: the loops over the packages and their crates.
RECURSIVE CrateLoop(_, _, _, _, _)
CrateLoop(pairs, cov, ord, plm, acc) ==
    IF pairs = <<>> THEN acc
    ELSE LET pk == Head(pairs)
             r  == TestLoop(Ascending(TestsIn(cov, pk[1], pk[2])), pk, cov,
                            ord, plm,
                            [uncovered |-> acc.uncovered, tests |-> <<>>,
                             added |-> FALSE])
         IN  CrateLoop(Tail(pairs), cov, ord, plm,
                       [uncovered |-> r.uncovered,
                        flat |-> acc.flat @@ (pk :> r.tests)])

\* A PackageCrateMap<Vec<Test>> from its (package, crate) entries.
Nested(cov, flat) ==
    [p \in PackagesIn(cov) |-> [c \in CratesIn(cov, p) |-> flat[<<p, c>>]]]

\* tests_for_path_lines: the test map and the map of uncovered lines.
tests_for_path_lines(cov, plm, ord) ==
    LET r == CrateLoop(CrateSeq({<<t[1], t[2]>> : t \in DOMAIN cov}), cov, ord,
                       plm, [uncovered |-> plm, flat |-> <<>>])
    IN  [test_map |-> Nested(cov, r.flat), uncovered |-> r.uncovered]

\* A count of the files of a record instead of their covered lines.
CoveredCount_files(rec, paths) == Cardinality(paths)

\* The sum of the sizes of the covered-line sets of a record.
RECURSIVE CoveredCount(_, _)
CoveredCount(rec, paths) ==
    IF paths = {} THEN 0
    ELSE LET path == CHOOSE x \in paths : TRUE IN
         Cardinality(rec[path]) + CoveredCount(rec, paths \ {path})

\* zero_coverage_tests, lines 395-399: the loop over the tests of a crate.
RECURSIVE ZeroLoop(_, _, _)
ZeroLoop(tests, pk, cov) ==
    IF tests = <<>> THEN <<>>
    ELSE LET rec == cov[<<pk[1], pk[2], Head(tests)>>] IN
         IF CoveredCount(rec, DOMAIN rec) = 0
         THEN <<Head(tests)>> \o ZeroLoop(Tail(tests), pk, cov)
         ELSE ZeroLoop(Tail(tests), pk, cov)

zero_coverage_tests(cov) ==
    [p \in PackagesIn(cov) |->
        [c \in CratesIn(cov, p) |->
            ZeroLoop(Ascending(TestsIn(cov, p, c)), <<p, c>>, cov)]]

\* BTreeMap::append: an entry of other replaces the entry of self with the
\* same key.
append(self, other) ==
    [k \in DOMAIN self \cup DOMAIN other |->
        IF k \in DOMAIN other THEN other[k] ELSE self[k]]

test_map_is_empty(tm) ==
    \A p \in DOMAIN tm : \A c \in DOMAIN tm[p] : tm[p][c] = <<>>

\* The tests the runner runs for a test map, as (package, crate, test).
Selected(tm) ==
    UNION {UNION {{<<p, c, tm[p][c][i]>> : i \in DOMAIN tm[p][c]}
                  : c \in DOMAIN tm[p]}
           : p \in DOMAIN tm}

\* A rendering that prints the first line of a range only.
FormatRange_first(r) == <<r[1]>>

\* warn_about_uncovered_lines, lines 374-379: one range as it is printed.
FormatRange(r) ==
    IF r[1] + 1 = r[2] THEN <<r[1]>> ELSE <<r[1], r[2] - 1>>

RECURSIVE FormatRanges(_, _)
FormatRanges(path, ranges) ==
    IF ranges = <<>> THEN <<>>
    ELSE <<<<path, FormatRange(Head(ranges))>>>> \o
         FormatRanges(path, Tail(ranges))

RECURSIVE FormatPaths(_, _)
FormatPaths(paths, plm) ==
    IF paths = <<>> THEN <<>>
    ELSE FormatRanges(Head(paths), Iter(plm[Head(paths)])) \o
         FormatPaths(Tail(paths), plm)

\* warn_about_uncovered_lines: the lines of the warning, none for no warning.
UncoveredReport(plm) == FormatPaths(Ascending(DOMAIN plm), plm)

\* A validation that only warns about a path that does not exist.
validate_paths_lenient(pdm, plm, found) ==
    [nonexistent |-> {},
     uncovered   |-> {path \in DOMAIN plm :
                         path \notin found \/ path \notin DOMAIN pdm},
     retained    |-> [path \in {x \in DOMAIN plm :
                                   x \in found /\ x \in DOMAIN pdm}
                      |-> plm[path]]]

\* validate_paths: the paths that stay, those that do not exist and those
\* without a digest.
validate_paths(pdm, plm, found) ==
    [nonexistent |-> {path \in DOMAIN plm : path \notin found},
     uncovered   |-> {path \in DOMAIN plm :
                         path \in found /\ path \notin DOMAIN pdm},
     retained    |-> [path \in {x \in DOMAIN plm :
                                   x \in found /\ x \in DOMAIN pdm}
                      |-> plm[path]]]

\* The digest of a file's contents, and its rendering in digests.json.
hash_path_contents(contents) == <<"sha256", contents>>

\* build_digests: one digest for every path of every artifact.
DigestsOf(cov, disk) ==
    [path \in UNION {DOMAIN cov[t] : t \in DOMAIN cov} |->
        hash_path_contents(disk[path])]

SelInit ==
    /\ opts \in [build : {FALSE}, refresh : {FALSE}, missing_only : {FALSE},
                 deny_warnings : BOOLEAN, no_run : {FALSE},
                 zero_coverage : BOOLEAN]
    /\ coverage_map \in CoverageMaps
    /\ path_digest_map = DigestsOf(coverage_map, [path \in PathIds |-> "v1"])
    /\ path_line_map \in PathLineMaps
    /\ test_map = <<>>
    /\ uncovered = <<>>
    /\ warnings = {}
    /\ on_disk = {}
    /\ pc = "validate"
    /\ result = "running"

\* run_tests of main.rs, line 178: validate_paths and warn_about_paths.
ValidatePaths ==
    /\ pc = "validate"
    /\ \E found \in SUBSET DOMAIN path_line_map :
        LET v == validate_paths(path_digest_map, path_line_map, found) IN
        /\ on_disk' = found
        /\ path_line_map' = v.retained
        /\ IF v.nonexistent # {}
           THEN /\ pc' = "done"
                /\ result' = "err"
                /\ UNCHANGED warnings
           ELSE IF v.uncovered # {}
                THEN /\ warnings' = warnings \cup {"paths"}
                     /\ pc' = IF opts.deny_warnings THEN "done" ELSE "select"
                     /\ result' = IF opts.deny_warnings THEN "err" ELSE result
                ELSE /\ pc' = "select"
                     /\ UNCHANGED <<result, warnings>>
    /\ UNCHANGED <<coverage_map, path_digest_map, test_map, uncovered>>
    /\ UNCHANGED notSel

\* line 182: tests_for_path_lines with warn_about_uncovered_lines.
SelectTests ==
    /\ pc = "select"
    /\ \E ord \in HashOrders(coverage_map) :
        LET r == tests_for_path_lines(coverage_map, path_line_map, ord) IN
        /\ uncovered' = r.uncovered
        /\ IF \A path \in DOMAIN r.uncovered : is_empty(r.uncovered[path])
           THEN /\ test_map' = r.test_map
                /\ pc' = "zero"
                /\ UNCHANGED <<result, warnings>>
           ELSE /\ warnings' = warnings \cup {"lines"}
                /\ IF opts.deny_warnings
                   THEN /\ pc' = "done"
                        /\ result' = "err"
                        /\ UNCHANGED test_map
                   ELSE /\ test_map' = r.test_map
                        /\ pc' = "zero"
                        /\ UNCHANGED result
    /\ UNCHANGED <<coverage_map, path_digest_map, path_line_map, on_disk>>
    /\ UNCHANGED notSel

\* lines 184-191: the zero-coverage tests and the test for nothing to do.
ZeroCoverage ==
    /\ pc = "zero"
    /\ LET tm == IF opts.zero_coverage
                 THEN append(test_map, zero_coverage_tests(coverage_map))
                 ELSE test_map
       IN  /\ test_map' = tm
           /\ IF test_map_is_empty(tm)
              THEN pc' = "done" /\ result' = "ok"
              ELSE pc' = "run" /\ UNCHANGED result
    /\ UNCHANGED <<coverage_map, path_digest_map, path_line_map, uncovered,
                   warnings, on_disk>>
    /\ UNCHANGED notSel

\* line 193: run::run_tests(&test_map, false); a test that fails is a
\* warning, an error under --deny-warnings.
RunSelected ==
    /\ pc = "run"
    /\ pc' = "done"
    /\ \E failed \in BOOLEAN :
        IF failed
        THEN /\ warnings' = warnings \cup {"test"}
             /\ result' = IF opts.deny_warnings THEN "err" ELSE "ok"
        ELSE /\ result' = "ok"
             /\ UNCHANGED warnings
    /\ UNCHANGED <<coverage_map, path_digest_map, test_map, path_line_map,
                   uncovered, on_disk>>
    /\ UNCHANGED notSel

SelNext ==
    \/ ValidatePaths
    \/ SelectTests
    \/ ZeroCoverage
    \/ RunSelected

(***************************************************************************)
(* Part 4: refresh() (src/main.rs)                                         *)
(*                                                                         *)
(* A source file holds one of two contents or has been deleted; digests.json*)
(* may hold, for a path, the digest of either contents or nothing.         *)
(***************************************************************************)

Contents == {"v1", "v2"}

Deleted == "deleted"

\* The artifacts of the store as refresh reads them: line 1 of some paths.
RefreshRecords ==
    {f \in PathCoverageMaps : \A path \in DOMAIN f : f[path] = {1}}

RefreshCoverageMaps == UNION {[K -> RefreshRecords] : K \in Layouts}

PathDigestMaps ==
    UNION {[D -> {hash_path_contents(c) : c \in Contents}]
           : D \in SUBSET PathIds}

\* A comparison that takes a path without a stored digest for unchanged.
path_contents_changed_known(pdm, disk, path) ==
    IF disk[path] = Deleted THEN "error"
    ELSE IF path \in DOMAIN pdm /\ pdm[path] # hash_path_contents(disk[path])
         THEN "changed"
         ELSE "unchanged"

\* path_contents_changed: "error" when the file cannot be read.
path_contents_changed(pdm, disk, path) ==
    IF disk[path] = Deleted THEN "error"
    ELSE IF path \in DOMAIN pdm /\ pdm[path] = hash_path_contents(disk[path])
         THEN "unchanged"
         ELSE "changed"

\* tests_for_refresh, lines 437-442: the loop over the paths of one record.
RECURSIVE KeysLoop(_, _, _)
KeysLoop(paths, pdm, disk) ==
    IF paths = <<>> THEN "unchanged"
    ELSE LET c == path_contents_changed(pdm, disk, Head(paths)) IN
         IF c = "unchanged" THEN KeysLoop(Tail(paths), pdm, disk) ELSE c

\* lines 436-443: the loop over the tests of one crate.
RECURSIVE RefreshTestLoop(_, _, _, _, _, _)
RefreshTestLoop(tests, pk, cov, pdm, disk, acc) ==
    IF tests = <<>> \/ ~acc.ok THEN acc
    ELSE LET rec == cov[<<pk[1], pk[2], Head(tests)>>]
             c   == KeysLoop(Ascending(DOMAIN rec), pdm, disk)
         IN  RefreshTestLoop(Tail(tests), pk, cov, pdm, disk,
                 IF c = "error" THEN [acc EXCEPT !.ok = FALSE]
                 ELSE IF c = "changed"
                      THEN [acc EXCEPT !.tests = Append(@, Head(tests))]
                      ELSE acc)

\* lines 432-445: the loops over the packages and their crates.
RECURSIVE RefreshCrateLoop(_, _, _, _, _)
RefreshCrateLoop(pairs, cov, pdm, disk, acc) ==
    IF pairs = <<>> \/ ~acc.ok THEN acc
    ELSE LET pk == Head(pairs)
             r  == RefreshTestLoop(Ascending(TestsIn(cov, pk[1], pk[2])), pk,
                                   cov, pdm, disk, [ok |-> TRUE, tests |-> <<>>])
         IN  RefreshCrateLoop(Tail(pairs), cov, pdm, disk,
                              [ok |-> r.ok, flat |-> acc.flat @@ (pk :> r.tests)])

\* tests_for_refresh: Err, or the tests to run again.
tests_for_refresh(pdm, cov, disk) ==
    LET r == RefreshCrateLoop(CrateSeq({<<t[1], t[2]>> : t \in DOMAIN cov}),
                              cov, pdm, disk, [ok |-> TRUE, flat |-> <<>>])
    IN  IF r.ok THEN [ok |-> TRUE, test_map |-> Nested(cov, r.flat)]
        ELSE [ok |-> FALSE, test_map |-> <<>>]

RefreshInit ==
    /\ opts \in [build : {FALSE}, refresh : {TRUE}, missing_only : {FALSE},
                 deny_warnings : BOOLEAN, no_run : BOOLEAN,
                 zero_coverage : {FALSE}]
    /\ coverage_map \in RefreshCoverageMaps
    /\ path_digest_map \in PathDigestMaps
    /\ files \in [PathIds -> Contents \cup {Deleted}]
    /\ test_map = <<>>
    /\ pc = "refresh"
    /\ result = "running"

\* refresh(), lines 412-416: db::read and tests_for_refresh.
TestsForRefresh ==
    /\ pc = "refresh"
    /\ LET r == tests_for_refresh(path_digest_map, coverage_map, files) IN
       IF r.ok
       THEN /\ test_map' = r.test_map
            /\ pc' = "rerun"
            /\ UNCHANGED result
       ELSE /\ pc' = "done"
            /\ result' = "err"
            /\ UNCHANGED test_map
    /\ UNCHANGED <<coverage_map, path_digest_map, files>>
    /\ UNCHANGED notRefresh

\* line 418: run::run_tests(&test_map, true).  A coverage process that
\* succeeds writes the artifact of its test anew; one that fails is a warning
\* and may have written it; any `?` on the way may return an error.
RefreshRunTests ==
    /\ pc = "rerun"
    /\ IF opts.no_run
       THEN /\ UNCHANGED coverage_map
            /\ \/ /\ pc' = "done"
                  /\ result' = "ok"
               \/ /\ Selected(test_map) # {}
                  /\ pc' = "done"
                  /\ result' = "err"
       ELSE \E written \in SUBSET Selected(test_map) :
            \E new \in [written -> RefreshRecords] :
               /\ coverage_map' = [t \in DOMAIN coverage_map |->
                                      IF t \in written THEN new[t]
                                      ELSE coverage_map[t]]
               /\ \/ /\ written = Selected(test_map) \/ ~opts.deny_warnings
                     /\ pc' = "digests"
                     /\ UNCHANGED result
                  \/ /\ Selected(test_map) # {}
                     /\ pc' = "done"
                     /\ result' = "err"
    /\ UNCHANGED <<path_digest_map, test_map, files>>
    /\ UNCHANGED notRefresh

\* A refresh that returns without writing digests.json anew.
RefreshDigests_stale ==
    /\ pc = "digests"
    /\ pc' = "done"
    /\ result' = "ok"
    /\ UNCHANGED <<coverage_map, path_digest_map, test_map, files>>
    /\ UNCHANGED notRefresh

\* lines 420-422: db::build_digests().
RefreshDigests ==
    /\ pc = "digests"
    /\ pc' = "done"
    /\ IF \E t \in DOMAIN coverage_map :
            \E path \in DOMAIN coverage_map[t] : files[path] = Deleted
       THEN /\ result' = "err"
            /\ UNCHANGED path_digest_map
       ELSE /\ result' = "ok"
            /\ path_digest_map' = DigestsOf(coverage_map, files)
    /\ UNCHANGED <<coverage_map, test_map, files>>
    /\ UNCHANGED notRefresh

RefreshNext ==
    \/ TestsForRefresh
    \/ RefreshRunTests
    \/ RefreshDigests

(***************************************************************************)
(* Part 9: cargo line-test --refresh run again (src/main.rs)               *)
(*                                                                         *)
(* The command returns, source files may be modified, and the command is   *)
(* run again with the same options on the store the last run left.         *)
(***************************************************************************)

MaxRefreshes == 2

\* A source file is written or removed while no refresh runs.
ModifyFile ==
    /\ pc = "done"
    /\ Len(history) + 1 < MaxRefreshes
    /\ \E path \in PathIds :
       \E contents \in (Contents \cup {Deleted}) \ {files[path]} :
          /\ files' = [files EXCEPT ![path] = contents]
          /\ modified' = modified \cup {path}
    /\ UNCHANGED <<pc, result, coverage_map, path_digest_map, test_map, history>>
    /\ UNCHANGED notAgain

\* main() calls refresh() once more: db::read loads the artifacts and
\* digests.json as the last run left them.
RefreshAgain ==
    /\ pc = "done"
    /\ Len(history) + 1 < MaxRefreshes
    /\ history' = Append(history,
                         [result   |-> result,
                          executed |-> IF opts.no_run THEN {}
                                       ELSE Selected(test_map),
                          modified |-> modified])
    /\ modified' = {}
    /\ pc' = "refresh"
    /\ result' = "running"
    /\ test_map' = <<>>
    /\ UNCHANGED <<coverage_map, path_digest_map, files>>
    /\ UNCHANGED notAgain

RefreshAgainNext ==
    \/ TestsForRefresh
    \/ RefreshRunTests
    \/ RefreshDigests
    \/ ModifyFile
    \/ RefreshAgain

(***************************************************************************)
(* Part 5: the artifacts of one crate target on disk                       *)
(* (run_tests of src/run.rs, build_digests of src/db/build/mod.rs,         *)
(* src/db/read.rs)                                                         *)
(*                                                                         *)
(* A string is a sequence of tokens: a letter, a dot, or the separator     *)
(* "::".  A Test is the sequence of the segments of its name.              *)
(***************************************************************************)

\* A test name has at most MaxNameLen tokens.
MaxNameLen == 3

NameTokens == {"a", ".", "::"}

\* The names a test-listing process may print before ": test".
ListedNames ==
    {s \in UNION {[1 .. n -> NameTokens] : n \in 1 .. MaxNameLen} : s[1] = "a"}

\* str::split("::")
RECURSIVE Split(_)
Split(s) ==
    IF \A i \in DOMAIN s : s[i] # "::" THEN <<s>>
    ELSE LET i == CHOOSE k \in DOMAIN s :
                      s[k] = "::" /\ \A j \in 1 .. (k - 1) : s[j] # "::"
         IN  <<SubSeq(s, 1, i - 1)>> \o Split(SubSeq(s, i + 1, Len(s)))

\* Display for Test: self.0.join("::")
RECURSIVE to_string(_)
to_string(test) ==
    IF Len(test) = 1 THEN test[1]
    ELSE test[1] \o <<"::">> \o to_string(Tail(test))

\* The place of the dot that starts the extension of a file name, 0 for a
\* name without extension (a leading dot starts none).
LastDot(name) ==
    IF \E i \in 2 .. Len(name) : name[i] = "."
    THEN CHOOSE i \in 2 .. Len(name) :
             name[i] = "." /\ \A j \in (i + 1) .. Len(name) : name[j] # "."
    ELSE 0

\* Path::file_stem
file_stem(name) ==
    IF LastDot(name) = 0 THEN name ELSE SubSeq(name, 1, LastDot(name) - 1)

\* Path::extension, <<"none">> for None
extension(name) ==
    IF LastDot(name) = 0 THEN <<"none">>
    ELSE <<"some", SubSeq(name, LastDot(name) + 1, Len(name))>>

\* Path::with_extension
with_extension(name, ext) == file_stem(name) \o <<".">> \o ext

\* path_buf.join(test.to_string()).with_extension("lcov"): the file name of
\* the artifact of a test.
LcovName(test) == with_extension(to_string(test), <<"lcov">>)

\* read_crate_dir: the tests of the files of a directory, in no order, or an
\* error for a file without the extension lcov.
read_crate_dir(names) ==
    IF \E name \in names : extension(name) # <<"some", <<"lcov">>>>
    THEN [ok |-> FALSE, tests |-> {}]
    ELSE [ok |-> TRUE, tests |-> {Split(file_stem(name)) : name \in names}]

\* hex::encode and hex::decode of a digest.
hex_encode(digest) == <<"hex", digest>>
hex_decode(hex) == hex[2]

\* build_digests over the artifacts of the directory: the text of
\* digests.json, or an error.
StoreDigests(dir, disk) ==
    LET r     == read_crate_dir(DOMAIN dir)
        found == \A test \in r.tests : LcovName(test) \in DOMAIN dir
        paths == UNION {dir[LcovName(test)] : test \in r.tests}
    IN  IF ~r.ok \/ ~found \/ \E path \in paths : disk[path] = Deleted
        THEN [ok |-> FALSE, json |-> <<>>]
        ELSE [ok |-> TRUE,
              json |-> [path \in paths |->
                           hex_encode(hash_path_contents(disk[path]))]]

\* read_path_digest_map
read_path_digest_map(json) == [path \in DOMAIN json |-> hex_decode(json[path])]

NotLoaded == [package_crate_test_map |-> {}, path_digest_map |-> <<>>]

\* The listings of at most MaxTests tests, no name twice.
StoreListings ==
    {[i \in DOMAIN l |-> Split(l[i])] :
        l \in {s \in UNION {[1 .. n -> ListedNames] : n \in 0 .. MaxTests} :
                  \A i \in DOMAIN s, j \in DOMAIN s : i # j => s[i] # s[j]}}

StoreInit ==
    /\ opts = [build |-> TRUE, refresh |-> FALSE, missing_only |-> FALSE,
               deny_warnings |-> FALSE, no_run |-> FALSE,
               zero_coverage |-> FALSE]
    /\ listed \in StoreListings
    /\ files \in [PathIds -> {"v1", Deleted}]
    /\ packages_dir = <<>>
    /\ digests_json = <<>>
    /\ captured = {}
    /\ cursor = 1
    /\ loaded = NotLoaded
    /\ pc = "capture"
    /\ result = "running"

\* run_tests, lines 63-124, with coverage: the coverage process of the next
\* test writes its artifact, or fails, which is a warning.
CaptureTest ==
    /\ pc = "capture"
    /\ cursor <= Len(listed)
    /\ cursor' = cursor + 1
    /\ \/ /\ \E paths \in SUBSET PathIds :
               packages_dir' = [name \in DOMAIN packages_dir \cup
                                         {LcovName(listed[cursor])} |->
                                   IF name = LcovName(listed[cursor]) THEN paths
                                   ELSE packages_dir[name]]
          /\ captured' = captured \cup {listed[cursor]}
       \/ UNCHANGED <<packages_dir, captured>>
    /\ UNCHANGED <<listed, digests_json, loaded, files, pc, result>>
    /\ UNCHANGED notStore

\* build(), lines 56-62: build_digests and Ok(()).
CaptureDigests ==
    /\ pc = "capture"
    /\ cursor > Len(listed)
    /\ LET r == StoreDigests(packages_dir, files) IN
       IF r.ok
       THEN /\ digests_json' = r.json
            /\ pc' = "read"
            /\ result' = "ok"
       ELSE /\ pc' = "done"
            /\ result' = "err"
            /\ UNCHANGED digests_json
    /\ UNCHANGED <<listed, packages_dir, captured, cursor, loaded, files>>
    /\ UNCHANGED notStore

\* db::read() in a later invocation.
ReadDb ==
    /\ pc = "read"
    /\ pc' = "done"
    /\ LET r == read_crate_dir(DOMAIN packages_dir) IN
       IF r.ok
       THEN /\ loaded' = [package_crate_test_map |-> r.tests,
                          path_digest_map |-> read_path_digest_map(digests_json)]
            /\ UNCHANGED result
       ELSE /\ result' = "err"
            /\ UNCHANGED loaded
    /\ UNCHANGED <<listed, packages_dir, digests_json, captured, cursor, files>>
    /\ UNCHANGED notStore

StoreNext ==
    \/ CaptureTest
    \/ CaptureDigests
    \/ ReadDb

(***************************************************************************)
(* Part 6: read_lcov() on one coverage artifact (src/db/read.rs)           *)
(*                                                                         *)
(* The lcov Reader yields the records of the artifact one by one; what it  *)
(* has yielded so far is kept in `records`.  A record is a source-file     *)
(* record (SF), a line-hit record (DA) with its count, an end-of-section   *)
(* record, any other record (TN, FN, LF, ...), or a parse error.           *)
(***************************************************************************)

\* The Reader yields at most MaxRecords records.
MaxRecords == 5

\* Record::SourceFile { path }, path under the current directory
SourceFile(path) == [type |-> "SF", path |-> path, line |-> 0, count |-> 0]

\* Record::LineData { line, count, checksum }
LineData(line, count) == [type |-> "DA", path |-> 0, line |-> line,
                          count |-> count]

\* Record::EndOfRecord
EndOfRecord == [type |-> "EOR", path |-> 0, line |-> 0, count |-> 0]

\* Every other record: the `_ => {}` arm.
OtherRecord == [type |-> "TN", path |-> 0, line |-> 0, count |-> 0]

\* Err(_) from the Reader: `result?` returns it.
ParseError == [type |-> "Err", path |-> 0, line |-> 0, count |-> 0]

LcovRecords ==
    {SourceFile(path) : path \in PathIds}
    \cup {LineData(line, count) : line \in 1 .. MaxLine, count \in 0 .. 1}
    \cup {EndOfRecord, OtherRecord, ParseError}

\* read_lcov, lines 95-98: the locals before the loop.
LcovInit ==
    /\ records = <<>>
    /\ source_file = <<>>
    /\ line_coverage = {}
    /\ path_coverage_map = <<>>
    /\ lcov_result = "reading"

\* PathCoverageMap::insert(key, coverage): replaces the value of a key that
\* is already there.
insert(map, key, value) ==
    [k \in DOMAIN map \cup {key} |-> IF k = key THEN value ELSE map[k]]

\* read_lcov, lines 99-125: one turn of the loop over the records.
ReadRecord ==
    /\ lcov_result = "reading"
    /\ Len(records) < MaxRecords
    /\ \E rec \in LcovRecords :
        /\ records' = Append(records, rec)
        /\ CASE rec.type = "Err" ->
                  /\ lcov_result' = "err"
                  /\ UNCHANGED <<source_file, line_coverage,
                                 path_coverage_map>>
             [] rec.type = "SF" ->
                  IF source_file # <<>>
                  THEN /\ lcov_result' = "err"
                       /\ UNCHANGED <<source_file, line_coverage,
                                      path_coverage_map>>
                  ELSE /\ source_file' = <<rec.path>>
                       /\ UNCHANGED <<line_coverage, path_coverage_map,
                                      lcov_result>>
             [] rec.type = "DA" /\ rec.count # 0 ->
                  /\ line_coverage' = line_coverage \cup {rec.line}
                  /\ UNCHANGED <<source_file, path_coverage_map, lcov_result>>
             [] rec.type = "EOR" ->
                  IF source_file = <<>>
                  THEN /\ lcov_result' = "err"
                       /\ UNCHANGED <<source_file, line_coverage,
                                      path_coverage_map>>
                  ELSE /\ path_coverage_map' =
                              insert(path_coverage_map, source_file[1],
                                     line_coverage)
                       /\ source_file' = <<>>
                       /\ line_coverage' = {}
                       /\ UNCHANGED lcov_result
             [] OTHER ->
                  UNCHANGED <<source_file, line_coverage, path_coverage_map,
                              lcov_result>>
    /\ UNCHANGED notLcov

\* read_lcov, line 127: the Reader is exhausted, Ok(path_coverage_map).
EndOfStream ==
    /\ lcov_result = "reading"
    /\ lcov_result' = "ok"
    /\ UNCHANGED <<records, source_file, line_coverage, path_coverage_map>>
    /\ UNCHANGED notLcov

LcovNext ==
    \/ ReadRecord
    \/ EndOfStream

(***************************************************************************)
(* Part 7: the line-of-interest map of run_tests() of main.rs, lines       *)
(* 165-174: the --line arguments, then a diff or line specifications read  *)
(* from standard input.                                                    *)
(*                                                                         *)
(* A line specification <path>:<a>-<b> is the record [path, a, b]; a hunk  *)
(* of a diff is the record [path, a, b] of its source file, its            *)
(* source_start a and its source_length b.                                 *)
(***************************************************************************)

\* At most MaxSpecs --line arguments, and as many items on standard input.
MaxSpecs == 2

\* The --line argument `-`.
Dash == [path |-> 0, a |-> 0, b |-> 0]

\* <path>:<a>-<b> with a in 1..2 and b in 0..2 (2-0 and 1-0 are accepted by
\* the parser), and the hunks @@ -a,b @@ of a file.
Items == [path : PathIds, a : 1 .. 2, b : 0 .. 2]

ItemLists == UNION {[1 .. n -> Items] : n \in 0 .. MaxSpecs}

ArgLists == UNION {[1 .. n -> Items \cup {Dash}] : n \in 0 .. MaxSpecs}

\* parse_line_specification: the map with the one entry of the path.
parse_line_specification(spec) ==
    [path \in {spec.path} |-> insert_range({}, <<spec.a, spec.b + 1>>)]

\* parse_line_specifications: the loop over opts::get().lines.
RECURSIVE parse_line_specifications(_, _, _)
parse_line_specifications(args, map, dash) ==
    IF args = <<>> THEN [map |-> map, line_dash_used |-> dash]
    ELSE IF Head(args) = Dash
         THEN parse_line_specifications(Tail(args), map, TRUE)
         ELSE parse_line_specifications(
                  Tail(args),
                  append(map, parse_line_specification(Head(args))),
                  dash)

\* read_diff: entry(source_file).or_default(), then insert_range for the
\* hunks with a source_length.
RECURSIVE read_diff(_, _)
read_diff(hunks, map) ==
    IF hunks = <<>> THEN map
    ELSE LET h == Head(hunks)
             line_set == IF h.path \in DOMAIN map THEN map[h.path] ELSE {}
             new_set == IF h.b = 0 THEN line_set
                        ELSE insert_range(line_set, <<h.a, h.a + h.b>>)
         IN  read_diff(Tail(hunks),
                       [path \in DOMAIN map \cup {h.path} |->
                           IF path = h.path THEN new_set ELSE map[path]])

\* read_line_specifications: the try_fold over the lines of standard input.
RECURSIVE read_line_specifications(_, _)
read_line_specifications(input, map) ==
    IF input = <<>> THEN map
    ELSE read_line_specifications(
             Tail(input), append(map, parse_line_specification(Head(input))))

ArgsInit ==
    /\ opts \in [build : {FALSE}, refresh : {FALSE}, missing_only : {FALSE},
                 deny_warnings : {FALSE}, no_run : {FALSE},
                 zero_coverage : {FALSE}]
    /\ opt_lines \in ArgLists
    /\ opt_diff \in BOOLEAN
    /\ stdin \in ItemLists
    /\ line_dash_used = FALSE
    /\ path_line_map = <<>>
    /\ uncovered = <<>>
    /\ warnings = {}
    /\ on_disk = {}
    /\ pc = "parse"
    /\ result = "running"

\* run_tests of main.rs, line 165
ParseLineSpecifications ==
    /\ pc = "parse"
    /\ LET r == parse_line_specifications(opt_lines, <<>>, FALSE) IN
       /\ path_line_map' = r.map
       /\ line_dash_used' = r.line_dash_used
    /\ pc' = "stdin"
    /\ UNCHANGED <<result, opt_lines, opt_diff, stdin, uncovered, warnings,
                   on_disk>>
    /\ UNCHANGED notArgs

\* run_tests of main.rs, lines 167-174
ReadStdin ==
    /\ pc = "stdin"
    /\ IF opt_diff
       THEN IF line_dash_used
            THEN /\ pc' = "done"
                 /\ result' = "err"
                 /\ UNCHANGED path_line_map
            ELSE /\ path_line_map' =
                        append(path_line_map, read_diff(stdin, <<>>))
                 /\ pc' = "read"
                 /\ UNCHANGED result
       ELSE /\ path_line_map' =
                   IF line_dash_used
                   THEN append(path_line_map,
                               read_line_specifications(stdin, <<>>))
                   ELSE path_line_map
            /\ pc' = "read"
            /\ UNCHANGED result
    /\ UNCHANGED <<opt_lines, opt_diff, stdin, line_dash_used, uncovered,
                   warnings, on_disk>>
    /\ UNCHANGED notArgs

ArgsNext ==
    \/ ParseLineSpecifications
    \/ ReadStdin

\* run_tests of main.rs after db::read(), with the line-of-interest map of
\* one --line argument as the parser builds it, <path>:2-0 included.
SelInitAny ==
    /\ opts \in [build : {FALSE}, refresh : {FALSE}, missing_only : {FALSE},
                 deny_warnings : BOOLEAN, no_run : {FALSE},
                 zero_coverage : BOOLEAN]
    /\ coverage_map \in CoverageMaps
    /\ path_digest_map = DigestsOf(coverage_map, [path \in PathIds |-> "v1"])
    /\ path_line_map \in {parse_line_specification(spec) : spec \in Items}
    /\ test_map = <<>>
    /\ uncovered = <<>>
    /\ warnings = {}
    /\ on_disk = {}
    /\ pc = "validate"
    /\ result = "running"


(***************************************************************************)
(* Part 8: the keys of the crate targets (package_crates of                *)
(* src/db/build/mod.rs) and the flags a key is turned back into            *)
(* (test_selection of src/run.rs)                                          *)
(*                                                                         *)
(* A name or key is a string, kept as the sequence of its pieces: `bin:`,  *)
(* `lib`, `m` and `-` are the pieces used.                                 *)
(***************************************************************************)

\* cargo metadata reports at most MaxTargets targets for the package.
MaxTargets == 2

TargetNames ==
    UNION {[1 .. n -> {"bin:", "lib", "m", "-"}] : n \in 1 .. 2}

\* A target: its kind and its declared name.
Targets == [kind : {"lib", "bin", "test", "example"}, name : TargetNames]

\* The targets of a package: at most one library, and no two targets of one
\* kind with the same name.
TargetLists ==
    {list \in UNION {[1 .. n -> Targets] : n \in 0 .. MaxTargets} :
        \A i, j \in DOMAIN list :
            i # j => /\ list[i].kind # list[j].kind \/ list[i].name # list[j].name
                     /\ ~(list[i].kind = "lib" /\ list[j].kind = "lib")}

\* package_crates, lines 108-116: Some(key) as <<key>>, None as <<>>.
krate(target) ==
    IF target.kind = "bin" THEN <<<<"bin:">> \o target.name>>
    ELSE IF target.kind = "lib" THEN <<<<"lib">>>>
    ELSE IF target.kind = "test" THEN <<target.name>>
    ELSE <<>>

\* test_selection: the flags cargo is given for a key.
test_selection(key) ==
    IF key = <<"lib">> THEN <<<<"--lib">>>>
    ELSE IF Head(key) = "bin:" THEN <<<<"--bin">>, Tail(key)>>
    ELSE <<<<"--test">>, key>>

MetaInit ==
    /\ metadata \in TargetLists
    /\ package_crates = {}
    /\ keyed = <<>>

\* package_crates, lines 107-122: one turn of the loop over package.targets.
PackageCratesStep ==
    /\ Len(keyed) < Len(metadata)
    /\ LET k == krate(metadata[Len(keyed) + 1]) IN
       /\ package_crates' = IF k = <<>> THEN package_crates
                            ELSE package_crates \cup {k[1]}
       /\ keyed' = Append(keyed, k)
    /\ UNCHANGED metadata
    /\ UNCHANGED notMeta

MetaNext == PackageCratesStep

(***************************************************************************)
(* The specifications                                                      *)
(***************************************************************************)

\* The values of the variables a specification does not move.
RsIdle == RsInit /\ pending = <<>> /\ inserted = <<>>

BuildIdle ==
    /\ db = Absent
    /\ backup = Absent
    /\ tempdir = FALSE
    /\ CTRLC = FALSE
    /\ handler = FALSE
    /\ restorer = "none"
    /\ package_crate_test_map = <<>>
    /\ pos = [p |-> 0, c |-> 0, t |-> 0]
    /\ proc = <<>>
    /\ pre = Absent
    /\ sig_armed = FALSE
    /\ all_tests = <<>>
    /\ started = <<>>
    /\ exit_status = "none"
    /\ warned = {}

MainIdle ==
    /\ opts = [build |-> FALSE, refresh |-> FALSE, missing_only |-> FALSE,
               deny_warnings |-> FALSE, no_run |-> FALSE,
               zero_coverage |-> FALSE]
    /\ pc = "idle"
    /\ result = "running"

StoreIdle ==
    /\ coverage_map = <<>>
    /\ path_digest_map = <<>>
    /\ test_map = <<>>

SelIdle ==
    /\ path_line_map = <<>>
    /\ uncovered = <<>>
    /\ warnings = {}
    /\ on_disk = {}

RefIdle == files = [path \in PathIds |-> "v1"]

FsIdle ==
    /\ listed = <<>>
    /\ packages_dir = <<>>
    /\ digests_json = <<>>
    /\ captured = {}
    /\ cursor = 1
    /\ loaded = NotLoaded

LcovIdle == LcovInit

MetaIdle ==
    /\ metadata = <<>>
    /\ package_crates = {}
    /\ keyed = <<>>

AgainIdle ==
    /\ history = <<>>
    /\ modified = {}

ArgsIdle ==
    /\ opt_lines = <<>>
    /\ opt_diff = FALSE
    /\ stdin = <<>>
    /\ line_dash_used = FALSE

\* A fresh RangeSet, main() not started.
InitRangeSet ==
    RsIdle /\ MainIdle /\ BuildIdle /\ StoreIdle /\ SelIdle /\ RefIdle
    /\ FsIdle /\ LcovIdle
    /\ ArgsIdle /\ MetaIdle
    /\ AgainIdle

\* cargo line-test --build starts.
InitBuild ==
    BuildInit /\ RsIdle /\ StoreIdle /\ SelIdle /\ RefIdle /\ FsIdle /\ LcovIdle
    /\ ArgsIdle /\ MetaIdle
    /\ AgainIdle

\* cargo line-test with line specifications starts.
InitSelect == SelInit /\ RsIdle /\ BuildIdle /\ RefIdle /\ FsIdle /\ LcovIdle
    /\ ArgsIdle /\ MetaIdle
    /\ AgainIdle

\* cargo line-test --refresh starts.
InitRefresh == RefreshInit /\ RsIdle /\ BuildIdle /\ SelIdle /\ FsIdle /\ LcovIdle
    /\ ArgsIdle /\ MetaIdle
    /\ AgainIdle

\* A build has listed the tests of a crate target and is about to run them.
InitStore == StoreInit /\ RsIdle /\ BuildIdle /\ StoreIdle /\ SelIdle /\ LcovIdle
    /\ ArgsIdle /\ MetaIdle
    /\ AgainIdle

\* A caller is about to call run::run_tests.
InitRun == RunInit /\ RsIdle /\ StoreIdle /\ SelIdle /\ RefIdle /\ FsIdle /\ LcovIdle
    /\ ArgsIdle /\ MetaIdle
    /\ AgainIdle

\* A caller starts to build the line set of a path.
InitInsert ==
    SeqInit /\ MainIdle /\ BuildIdle /\ StoreIdle /\ SelIdle /\ RefIdle /\ FsIdle
    /\ LcovIdle
    /\ ArgsIdle /\ MetaIdle
    /\ AgainIdle

\* cargo line-test without --build and --refresh starts.
InitArgs ==
    ArgsInit /\ RsIdle /\ BuildIdle /\ StoreIdle /\ RefIdle /\ FsIdle /\ LcovIdle
    /\ MetaIdle
    /\ AgainIdle

\* package_crates() comes to a package of the workspace.
InitMeta ==
    MetaInit /\ RsIdle /\ MainIdle /\ BuildIdle /\ StoreIdle /\ SelIdle /\ RefIdle
    /\ FsIdle /\ LcovIdle /\ ArgsIdle
    /\ AgainIdle

\* cargo line-test --line <path>:<a>-<b> has read the store.
InitSelectAny ==
    SelInitAny /\ RsIdle /\ BuildIdle /\ RefIdle /\ FsIdle /\ LcovIdle /\ ArgsIdle
    /\ MetaIdle
    /\ AgainIdle

\* read_lcov is called on an artifact.
InitLcov ==
    LcovInit /\ RsIdle /\ MainIdle /\ BuildIdle /\ StoreIdle /\ SelIdle /\ RefIdle
    /\ FsIdle
    /\ ArgsIdle /\ MetaIdle
    /\ AgainIdle

\* RangeSet under callers that pass any Range<u32>.
SpecRangeAny == InitRangeSet /\ [][RsNextAny]_vars

\* RangeSet under callers that pass ranges with start < end.
SpecRange == InitRangeSet /\ [][RsNextProper]_vars

\* cargo line-test --build
SpecBuild == InitBuild /\ [][BuildNext]_vars

\* cargo line-test --line ... [--zero-coverage]
SpecSelect == InitSelect /\ [][SelNext]_vars

\* cargo line-test --refresh
SpecRefresh == InitRefresh /\ [][RefreshNext]_vars

\* cargo line-test --refresh, source files modified, and --refresh again
SpecRefreshAgain == InitRefresh /\ [][RefreshAgainNext]_vars

\* The artifacts of a crate target from their capture to db::read()
SpecStore == InitStore /\ [][StoreNext]_vars

\* run::run_tests under build(), refresh() and main.rs's run_tests
SpecRun == InitRun /\ [][RunNext]_vars

\* read_lcov() on the records of one artifact
SpecLcov == InitLcov /\ [][LcovNext]_vars

\* A RangeSet built by a list of insert_range calls
SpecInsert == InitInsert /\ [][SeqNext]_vars

\* run_tests() of main.rs up to the line-of-interest map
SpecArgs == InitArgs /\ [][ArgsNext]_vars

\* The keys of the targets of a package
SpecMeta == InitMeta /\ [][MetaNext]_vars

\* cargo line-test --line <path>:<a>-<b> [--zero-coverage]
SpecSelectAny == InitSelectAny /\ [][SelNext]_vars

Spec == SpecSelect

(***************************************************************************)
(* The claims                                                              *)
(***************************************************************************)

\* Two ranges overlap or touch: they hold equal or neighbouring integers.
Touch(r, q) == \E i \in Ints(r), j \in Ints(q) : i - j \in {-1, 0, 1}

\* C1: after any sequence of insert_range calls on an empty RangeSet, the
\* integers covered by the stored ranges are the union of the integers of the
\* inserted ranges, and no two stored ranges overlap or touch.
C1_InsertRangeUnion ==
    ~removes =>
        /\ Covered(range_set) = expected
        /\ \A r \in range_set, q \in range_set : r # q => ~Touch(r, q)

\* C2: contains(x) returns true if and only if some stored range r has
\* r.start <= x < r.end.
C2_ContainsIffInRange ==
    last.op = "contains" =>
        (last.ret <=> \E r \in range_set :
                         r[1] <= last.arg[1] /\ last.arg[1] < r[2])

\* C3: remove(x) returns true exactly when x lies in a stored range;
\* afterwards x lies in no stored range and the membership of every other
\* value is unchanged; when x lies in no stored range the stored ranges are
\* unchanged.
C3_RemoveLaw ==
    last.op = "remove" =>
        LET x == last.arg[1]
            S == last.before
        IN  /\ last.ret <=> x \in Covered(S)
            /\ x \notin Covered(range_set)
            /\ Covered(range_set) \ {x} = Covered(S) \ {x}
            /\ x \notin Covered(S) => range_set = S

\* C4: when a build that is not missing-only found a store and the interrupt
\* flag was set after the store was renamed into the backup directory and
\* before the guard was disarmed, the invocation ends with the store directory
\* as it was before the run and without the temporary sibling directory.
C4_InterruptRestores ==
    (pc = "done" /\ pre.exists /\ ~opts.missing_only /\ sig_armed) =>
        (db = pre /\ ~tempdir)

\* C5: when build returns an error after it has backed up a store, the
\* partially built directory is gone and the backup is back in place: the
\* store directory has its contents of before the run.
C5_ErrorRestores ==
    (pc = "done" /\ result = "err" /\ restorer # "none") =>
        (db = pre /\ backup = Absent /\ ~tempdir)

\* A build that failed after it had written an artifact into the new store.
C5_Witness ==
    /\ pc = "done"
    /\ result = "err"
    /\ restorer = "armed"
    /\ pre.exists
    /\ pos.t >= 2
    /\ db = pre

\* Does the record of test t hold a requested line of the path?
CoversRequested(t, path) ==
    /\ path \in DOMAIN coverage_map[t]
    /\ coverage_map[t][path] \cap Covered(path_line_map[path]) # {}

\* C6: for every requested path that passed validation and of which some
\* stored test's record holds a requested line, the selection holds a test
\* whose record for that path holds a requested line.
C6_OneTestPerPath ==
    pc = "zero" =>
        \A path \in DOMAIN path_line_map :
            (\E t \in DOMAIN coverage_map : CoversRequested(t, path)) =>
            (\E t \in Selected(test_map) : CoversRequested(t, path))

\* C7: once a test has been selected for the requested path, no requested
\* line of that path is in the uncovered-lines warning, and there is no such
\* warning when nothing else was requested.
C7_SelectedPathSatisfied ==
    pc = "zero" =>
        \A path \in DOMAIN path_line_map :
            (DOMAIN path_line_map = {path} /\ Selected(test_map) # {}) =>
                /\ Covered(uncovered[path]) = {}
                /\ "lines" \notin warnings

\* C8: when zero-coverage selection is requested together with line
\* specifications, every test selected for the requested lines is still in
\* the test map after the zero-coverage tests are appended.
C8_AppendKeepsSelected ==
    [][(pc = "zero" /\ opts.zero_coverage) =>
          Selected(test_map) \subseteq Selected(test_map')]_vars

\* Has the file another digest than the stored one, or no stored one?
DigestDiffers(path) ==
    \/ path \notin DOMAIN path_digest_map
    \/ files[path] = Deleted
    \/ path_digest_map[path] # hash_path_contents(files[path])

\* How often the test map holds test t.
TimesSelected(t) ==
    Cardinality({i \in DOMAIN test_map[t[1]][t[2]] :
                    test_map[t[1]][t[2]][i] = t[3]})

\* C9: refresh selects a test exactly once when some file of its coverage
\* record has a digest that differs from the stored one or has no stored
\* digest, and not at all when all of its files are unchanged.
C9_RefreshSelectsChanged ==
    pc = "rerun" =>
        \A t \in DOMAIN coverage_map :
            TimesSelected(t) =
                IF \E path \in DOMAIN coverage_map[t] : DigestDiffers(path)
                THEN 1 ELSE 0

\* A refresh that selected one test and left the other, whose files are
\* unchanged.
C9_Witness ==
    /\ pc = "rerun"
    /\ \E t \in DOMAIN coverage_map, u \in DOMAIN coverage_map :
        /\ TimesSelected(t) = 1
        /\ \E path \in DOMAIN coverage_map[t] : path \notin DOMAIN path_digest_map
        /\ TimesSelected(u) = 0
        /\ DOMAIN coverage_map[u] # {}

\* C10: for fixed coverage data and a fixed line-of-interest map, a selection
\* run returns the same test set and the same uncovered-lines report under
\* every order in which the covered-line sets are iterated.
C10_SelectionDeterministic ==
    pc = "zero" =>
        \A ord \in HashOrders(coverage_map) :
            LET r == tests_for_path_lines(coverage_map, path_line_map, ord)
            IN  /\ Selected(r.test_map) = Selected(test_map)
                /\ UncoveredReport(r.uncovered) = UncoveredReport(uncovered)

\* C11: after a successful build, read() returns exactly the tests of which
\* an artifact was captured, under the names they were run with, and a digest
\* map with one entry for every file an artifact refers to, the hash of the
\* file's contents.
C11_ReadReturnsCaptured ==
    (pc = "done" /\ result = "ok") =>
        /\ loaded.package_crate_test_map = captured
        /\ DOMAIN loaded.path_digest_map =
               UNION {packages_dir[name] : name \in DOMAIN packages_dir}
        /\ \A path \in DOMAIN loaded.path_digest_map :
               loaded.path_digest_map[path] = hash_path_contents(files[path])

\* The lines of a path that the uncovered-lines report lists.
ReportedLines(path) ==
    UNION {IF Len(e[2]) = 1 THEN {e[2][1]} ELSE e[2][1] .. e[2][2]
           : e \in {x \in {UncoveredReport(uncovered)[i] :
                              i \in DOMAIN UncoveredReport(uncovered)} :
                       x[1] = path}}

\* Is the line in no stored record of the path?
InNoRecord(path, line) ==
    \A t \in DOMAIN coverage_map :
        path \in DOMAIN coverage_map[t] => line \notin coverage_map[t][path]

\* tests_for_path_lines has returned or has failed on its warning.
AfterSelect == pc \in {"zero", "run"} \/ "lines" \in warnings

C13_OneTestForPath ==
    pc = "zero" =>
        \A path \in DOMAIN path_line_map :
            DOMAIN path_line_map = {path} =>
                Cardinality(Selected(test_map)) <= 1

\* C14: validation fails with an error, whatever deny-warnings is, when a
\* requested path is not on disk, and then no test is selected; otherwise the
\* paths without a digest are removed with a warning that is an error under
\* deny-warnings only, and the paths that remain are on disk and have a digest.
C14_ValidatePaths ==
    [][pc = "validate" =>
          IF \E path \in DOMAIN path_line_map : path \notin on_disk'
          THEN pc' = "done" /\ result' = "err" /\ test_map' = <<>>
          ELSE /\ DOMAIN path_line_map' =
                      DOMAIN path_line_map \cap DOMAIN path_digest_map
               /\ DOMAIN path_line_map' \subseteq on_disk'
               /\ \A path \in DOMAIN path_line_map' :
                      path_line_map'[path] = path_line_map[path]
               /\ IF DOMAIN path_line_map \subseteq DOMAIN path_digest_map
                  THEN warnings' = warnings /\ pc' = "select"
                  ELSE /\ "paths" \in warnings'
                       /\ result' = "err" <=> opts.deny_warnings
                       /\ pc' = IF opts.deny_warnings THEN "done" ELSE "select"]_vars

\* A validation that removed one requested path with a warning and kept the
\* other; and one that failed on a missing path without deny-warnings.
C14_Witness ==
    \/ /\ pc = "select"
       /\ "paths" \in warnings
       /\ path_line_map # <<>>
       /\ DOMAIN path_line_map \subseteq on_disk
    \/ /\ pc = "done"
       /\ result = "err"
       /\ ~opts.deny_warnings
       /\ path_line_map = <<>>
       /\ test_map = <<>>
       /\ warnings = {}

\* An iteration of the runner's package, crate-target or test loop begins.
IterationBegins ==
    \/ pc = "package" /\ pos.p <= Len(CrateCount)
    \/ pc = "crate" /\ pos.c <= CrateCount[pos.p]
    \/ pc = "test" /\ pos.t <= Len(package_crate_test_map[<<pos.p, pos.c>>])

\* C15: when the cancellation flag is set as a package, crate-target or test
\* iteration of the runner begins, the run returns an error, no process is
\* alive at that point, and neither that step nor any step after the error
\* starts a test's process.
C15_CancelAtIteration ==
    [][/\ (CTRLC /\ IterationBegins) =>
            /\ proc = <<>>
            /\ result' = "err"
            /\ pc' = "drop"
            /\ proc' = <<>>
            /\ started' = started
       /\ result = "err" => (started' = started /\ proc' = <<>>)]_vars

\* The build was cancelled after its first test had run to completion and
\* before the second one was started.
C15_Witness ==
    /\ CTRLC
    /\ pc = "done"
    /\ result = "err"
    /\ started = <<<<1, 1, 1>>>>
    /\ exit_status = "success"
    /\ package_crate_test_map[<<1, 1>>] = <<1, 2>>

\* Test a comes before test b in (package, crate target, list) order.
Before(a, b) ==
    \/ a[1] < b[1]
    \/ a[1] = b[1] /\ a[2] < b[2]
    \/ a[1] = b[1] /\ a[2] = b[2] /\ a[3] < b[3]

\* C16: under each caller of the runner, a test's process is started only
\* while no other one is alive, and the processes are started in ascending
\* (package, crate target, list) order.
C16_OneProcessInOrder ==
    [][/\ started' # started =>
            /\ proc = <<>>
            /\ started' = Append(started, proc')
       /\ proc' # proc => (proc = <<>> \/ proc' = <<>>)
       /\ \A i, j \in DOMAIN started' :
            i < j => Before(started'[i], started'[j])]_vars

\* Selected tests of two packages have been run, one after the other.
C16_Witness ==
    /\ ~coverage
    /\ pc = "done"
    /\ result = "ok"
    /\ Len(started) = 3
    /\ started[1][1] = 1
    /\ started[3][1] = 2

\* The tests whose process was started.
StartedSet == {started[i] : i \in DOMAIN started}

\* C17: in select-and-run mode a test's process that exits with a failure
\* yields a warning and the loop moves on to the next test when warnings are
\* not denied, so that a run that returns Ok has run every selected test;
\* when warnings are denied the failure ends the run with an error and no
\* later test is started.
C17_FailingTestWarns ==
    [][~coverage =>
        /\ (pc = "exec" /\ exit_status' = "failure") =>
              IF opts.deny_warnings
              THEN /\ result' = "err"
                   /\ pc' = "done"
                   /\ warned' = warned
              ELSE /\ warned' = warned \cup {proc}
                   /\ pc' = "test"
                   /\ pos' = [pos EXCEPT !.t = @ + 1]
                   /\ result' = result
        /\ result = "err" => started' = started
        /\ (pc' = "done" /\ result' = "ok" /\ ~opts.no_run) =>
              StartedSet' = ArtifactsOf(package_crate_test_map)]_vars

\* The first selected test failed with a warning, the second one was run
\* all the same and the invocation ended successfully.
C17_Witness ==
    /\ ~coverage
    /\ ~opts.deny_warnings
    /\ pc = "done"
    /\ result = "ok"
    /\ started = <<<<1, 1, 1>>, <<1, 1, 2>>>>
    /\ warned = {<<1, 1, 1>>}
    /\ exit_status = "success"

\* The listed tests that had no artifact when the build started.
MissingTests == {s \in Slots : /\ \E i \in DOMAIN all_tests[<<s[1], s[2]>>] :
                                     all_tests[<<s[1], s[2]>>][i] = s[3]
                                /\ s \notin pre.old}

\* C18: a missing-only build takes no backup of the store, starts a process
\* for no test other than the listed ones without an artifact, for each of
\* them once it has returned Ok (tests being run), and keeps every artifact
\* that was there before.
C18_MissingOnlyBuild ==
    opts.missing_only =>
        /\ restorer = "none"
        /\ backup = Absent
        /\ ~tempdir
        /\ ~handler
        /\ pre.old \subseteq db.old
        /\ pc \in {"package", "crate", "test", "exec", "digests", "drop", "done"}
              => StartedSet \subseteq MissingTests
        /\ \A i, j \in DOMAIN started : i # j => started[i] # started[j]
        /\ (pc = "done" /\ result = "ok" /\ ~opts.no_run)
              => StartedSet = MissingTests

\* The store held the artifact of the first of the two tests of a target;
\* the build ran the second one only and wrote its artifact.
C18_Witness ==
    /\ opts.missing_only
    /\ pc = "done"
    /\ result = "ok"
    /\ pre.old = {<<1, 1, 1>>}
    /\ all_tests[<<1, 1>>] = <<1, 2>>
    /\ started = <<<<1, 1, 2>>>>
    /\ db.old = {<<1, 1, 1>>}
    /\ db.new = {<<1, 1, 2>>}

\* The indices of the source-file records of a path among the records read.
SectionsOf(path) ==
    {i \in DOMAIN records : records[i].type = "SF" /\ records[i].path = path}

\* C19: read_lcov does not return a coverage record for an artifact that
\* has two source-file sections for one file, nested or one after the other.
C19_DuplicateSectionFails ==
    lcov_result = "ok" => \A path \in PathIds : Cardinality(SectionsOf(path)) <= 1

\* Is a section open after the first n records?
RECURSIVE SectionOpen(_)
SectionOpen(n) ==
    IF n = 0 THEN FALSE
    ELSE CASE records[n].type = "SF" -> TRUE
           [] records[n].type = "EOR" -> FALSE
           [] OTHER -> SectionOpen(n - 1)

\* A well-formed stream: a source-file record only with no section open, an
\* end-of-section or line-hit record only with one open, none open at the
\* end.
WellFormed ==
    /\ \A i \in DOMAIN records :
          /\ records[i].type = "SF" => ~SectionOpen(i - 1)
          /\ records[i].type \in {"EOR", "DA"} => SectionOpen(i - 1)
          /\ records[i].type # "Err"
    /\ ~SectionOpen(Len(records))

\* C20: read_lcov returns Ok only for a well-formed stream of records.
C20_OkOnlyIfWellFormed == lcov_result = "ok" => WellFormed

\* C21: when build returns Ok after it has backed up a store, line-test.db
\* is the store this build made (its README, its digests, no artifact of
\* the old store), the backup is gone and so is the temporary sibling
\* directory.
C21_SuccessDropsBackup ==
    (pc = "done" /\ result = "ok" /\ restorer # "none") =>
        /\ restorer = "disabled"
        /\ db.exists
        /\ db.readme
        /\ db.digests = "new"
        /\ db.old = {}
        /\ db.new \subseteq StartedSet
        /\ backup = Absent
        /\ ~tempdir

\* A build over an old store that held an artifact has run two tests and
\* returned Ok.
C21_Witness ==
    /\ pc = "done"
    /\ result = "ok"
    /\ restorer = "disabled"
    /\ pre.old # {}
    /\ Cardinality(db.new) = 2

\* The lists that hold the ranges of a list in another order.
PermutationsOf(list) ==
    {[i \in DOMAIN list |-> list[f[i]]] :
        f \in {g \in [DOMAIN list -> DOMAIN list] :
                  \A i, j \in DOMAIN list : i # j => g[i] # g[j]}}

\* C22: the ranges stored after a list of insert_range calls are those
\* stored after the same calls in any other order, and after the same calls
\* followed by one of them again.
C22_InsertOrderIndependent ==
    /\ \A list \in PermutationsOf(inserted) : InsertAll({}, list) = range_set
    /\ \A i \in DOMAIN inserted :
          insert_range(range_set, inserted[i]) = range_set

\* C23: a missing-only build that finds no line-test.db returns an error
\* from the existence check: it never gets to the listing of the tests, no
\* test's process is started and no line-test.db is made.
C23_MissingOnlyNeedsStore ==
    (opts.missing_only /\ ~pre.exists) =>
        /\ pc \in {"start", "drop", "done"}
        /\ pc # "start" => result = "err"
        /\ all_tests = [pk \in PackageCrates |-> <<>>]
        /\ started = <<>>
        /\ proc = <<>>
        /\ db = Absent
        /\ backup = Absent
        /\ ~tempdir

\* The missing-only build without a store has returned its error.
C23_Witness ==
    /\ opts.missing_only
    /\ ~pre.exists
    /\ pc = "done"
    /\ result = "err"

\* Some --line argument is an explicit specification.
ExplicitGiven == \E i \in DOMAIN opt_lines : opt_lines[i] # Dash

\* C24: when the line-of-interest map has been put together, at most one of
\* the three sources has been read into it: the explicit --line arguments,
\* a diff on standard input, line specifications on standard input.
C24_OneSource ==
    pc = "read" =>
        /\ ~(ExplicitGiven /\ opt_diff /\ stdin # <<>>)
        /\ ~(ExplicitGiven /\ ~opt_diff /\ line_dash_used /\ stdin # <<>>)
        /\ ~(opt_diff /\ line_dash_used)

\* The lines of a path that a list of line specifications asks for.
SpecLinesOf(list, path) ==
    UNION {Ints(<<list[i].a, list[i].b + 1>>) :
             i \in {j \in DOMAIN list : list[j].path = path}}

\* The source lines of a path that the hunks of a diff touch.
HunkLinesOf(list, path) ==
    UNION {Ints(<<list[i].a, list[i].a + list[i].b>>) :
             i \in {j \in DOMAIN list : list[j].path = path}}

\* The lines of a path the invocation asks for, over all its sources.
Requested(path) ==
    SpecLinesOf(opt_lines, path)
    \cup (IF opt_diff THEN HunkLinesOf(stdin, path)
          ELSE IF line_dash_used THEN SpecLinesOf(stdin, path) ELSE {})

\* C29: the line-of-interest map that has been put together holds, for
\* each path, the union of the lines all the specifications of that path
\* ask for.
C29_MapIsUnion ==
    pc = "read" =>
        \A path \in PathIds :
            IF path \in DOMAIN path_line_map
            THEN Covered(path_line_map[path]) = Requested(path)
            ELSE Requested(path) = {}

\* The flags that select a target.
FlagsFor(target) ==
    IF target.kind = "lib" THEN <<<<"--lib">>>>
    ELSE IF target.kind = "bin" THEN <<<<"--bin">>, target.name>>
    ELSE <<<<"--test">>, target.name>>

\* The library, binary and integration-test targets looked at so far.
KeyedTargets == {i \in DOMAIN keyed : metadata[i].kind # "example"}

\* C25: every library, binary and integration-test target of a package
\* gets a key, no two of them get the same key, and test_selection turns
\* the key of a target into the flags that select that target.
C25_KeysDistinctAndSelect ==
    \A i \in KeyedTargets :
        /\ keyed[i] # <<>>
        /\ \A j \in KeyedTargets : i # j => keyed[i] # keyed[j]
        /\ test_selection(keyed[i][1]) = FlagsFor(metadata[i])

\* The stored tests whose record has no covered line in any file.
ZeroTests ==
    {t \in DOMAIN coverage_map :
        \A path \in DOMAIN coverage_map[t] : coverage_map[t][path] = {}}

\* C26: the step that appends the zero-coverage tests leaves every test
\* whose record has no covered line in the test map and brings in no test
\* whose record has a covered line.
C26_ZeroCoverageExact ==
    [][(pc = "zero" /\ opts.zero_coverage) =>
          /\ ZeroTests \subseteq Selected(test_map')
          /\ (Selected(test_map') \ Selected(test_map)) \subseteq ZeroTests]_vars

\* One test has a record with a file and no covered line, the other covers
\* a line; zero-coverage selection has taken the first one only.
C26_Witness ==
    /\ opts.zero_coverage
    /\ pc = "run"
    /\ DOMAIN coverage_map = {<<1, 1, 1>>, <<1, 1, 2>>}
    /\ coverage_map[<<1, 1, 1>>] = [path \in {1} |-> {}]
    /\ coverage_map[<<1, 1, 2>>] = [path \in {1} |-> {1}]
    /\ Selected(test_map) = {<<1, 1, 1>>}

\* C27: every test that tests_for_path_lines puts into the test map has a
\* record that holds a requested line of a requested path that passed
\* validation.
C27_SelectedCoversRequested ==
    [][pc = "select" =>
          \A t \in Selected(test_map') :
              \E path \in DOMAIN path_line_map : CoversRequested(t, path)]_vars

\* C28: when the coverage process of a test of a build exits with a
\* failure, the build returns an error at that step, whether warnings are
\* denied or not, and starts no test afterwards.
C28_FailedCaptureAborts ==
    [][/\ (opts.build /\ pc = "exec" /\ exit_status' = "failure") =>
            (result' = "err" /\ pc' = "drop")
       /\ (opts.build /\ exit_status = "failure") => started' = started]_vars

\* C30: under --no-run a build starts no test's process, and when it is
\* over a store that was there before has the artifacts and the digests it
\* had.
C30_NoRunKeepsStore ==
    opts.no_run =>
        /\ started = <<>>
        /\ proc = <<>>
        /\ (pc = "done" /\ pre.exists) =>
              /\ db.old = pre.old
              /\ db.new = {}
              /\ db.digests = pre.digests

\* The refresh that returned last, when this one is not the first.
Previous == history[Len(history)]

\* The last refresh executed its tests and returned success, and no source
\* file was modified before this one started.
AfterCleanRefresh ==
    /\ history # <<>>
    /\ ~opts.no_run
    /\ Previous.result = "ok"
    /\ Previous.modified = {}

\* C31: after a refresh that executes its tests and returns success, a second
\* refresh performed with no source file modified in between selects no
\* test.
C31_SecondRefreshSelectsNone ==
    (AfterCleanRefresh /\ pc = "rerun") => Selected(test_map) = {}

\* A second refresh has selected no test, after a first that executed a test
\* whose file had changed and returned success.
C31_Witness ==
    /\ AfterCleanRefresh
    /\ pc = "rerun"
    /\ Previous.executed # {}
    /\ Selected(test_map) = {}
    /\ \E t \in DOMAIN coverage_map : DOMAIN coverage_map[t] # {}

====
